---- MODULE Spec2Model ----
(***************************************************************************)
(* Model of the NIR report consolidator: the three report extractors       *)
(* (parsers/baseline_parser.py, parsers/validation_parser.py,              *)
(* parsers/predictions_parser.py), the global status reconciler and the    *)
(* renderer (consolidator_v2.py) and the report run of app.py.             *)
(*                                                                         *)
(* A Python str is a sequence of atoms.  An atom is a TLA+ string: one     *)
(* character where the code looks at characters (digits, separators,       *)
(* colons, blanks, status symbols) and one word where the code only tests  *)
(* whether a keyword occurs.  A Python dict is a function whose domain is  *)
(* the set of its keys.  An HTML document is the tree of the elements the  *)
(* extractors look up (BeautifulSoup find / find_all), as nested records.  *)
(***************************************************************************)
EXTENDS Integers, Sequences, FiniteSets, TLC

VARIABLES
    parser,      \* the extractor object under study: its class, soup and data
    result,      \* what the last call on the extractor returned
    uploads,     \* app: the three uploaded documents (None when not uploaded)
    consolidator,\* the ReportConsolidatorV2 object of the report run
    pc,          \* app: position inside generate_consolidated_report
    output,      \* app: consolidated_html, the status preview and the error
    session,     \* main(): st.session_state.service_info (None before it is set)
    heap         \* the addresses id() gives the raw documents in this run

vars == <<parser, result, uploads, consolidator, pc, output, session, heap>>

-----------------------------------------------------------------------------
(* Python values *)

None == [k |-> "None"]
EmptyDict == <<>>
EmptyStr == <<>>

\* dict.get(key, default)
Get(d, key, default) == IF key \in DOMAIN d THEN d[key] ELSE default

\* d[key] = value
Put(d, key, value) == (key :> value) @@ d

\* truth value of a dict, a list or a str: non-empty
Truthy(x) == DOMAIN x # {}

Range(s) == {s[i] : i \in DOMAIN s}

\* keyword in text
Contains(text, keyword) == keyword \in Range(text)

\* str.replace(old, new) for a one-character old and a new of length 0 or 1
RECURSIVE Replace(_, _, _)
Replace(s, old, new) ==
    IF s = <<>> THEN <<>>
    ELSE (IF Head(s) = old THEN new ELSE <<Head(s)>>) \o Replace(Tail(s), old, new)

Blank == " "

\* str.strip(), and get_text(strip=True) on a single text node
RECURSIVE LStrip(_)
LStrip(s) == IF s # <<>> /\ Head(s) = Blank THEN LStrip(Tail(s)) ELSE s

RECURSIVE RStrip(_)
RStrip(s) ==
    IF s # <<>> /\ s[Len(s)] = Blank THEN RStrip(SubSeq(s, 1, Len(s) - 1)) ELSE s

Strip(s) == RStrip(LStrip(s))

\* ' '.join(parts)
RECURSIVE Join(_)
Join(parts) ==
    IF parts = <<>> THEN <<>>
    ELSE IF Len(parts) = 1 THEN parts[1]
    ELSE parts[1] \o <<Blank>> \o Join(Tail(parts))

\* str.lower(): the atoms of the documents that have upper-case letters
Lower(text) ==
    [i \in DOMAIN text |->
        CASE text[i] = "EXITOSA" -> "exitosa"
          [] text[i] = "Exitosa" -> "exitosa"
          [] text[i] = "Correctamente" -> "correctamente"
          [] text[i] = "WARNING" -> "warning"
          [] text[i] = "Warning" -> "warning"
          [] text[i] = "Revisar" -> "revisar"
          [] text[i] = "REVISAR" -> "revisar"
          [] text[i] = "Ajuste" -> "ajuste"
          [] text[i] = "Verificación" -> "verificación"
          [] OTHER -> text[i]]

-----------------------------------------------------------------------------
(* float(str) and int(str) *)

Digits == <<"0", "1", "2", "3", "4", "5", "6", "7", "8", "9">>
IsDigit(c) == \E i \in DOMAIN Digits : Digits[i] = c
DigitVal(c) == (CHOOSE i \in DOMAIN Digits : Digits[i] = c) - 1

RECURSIVE Pow10(_)
Pow10(n) == IF n = 0 THEN 1 ELSE 10 * Pow10(n - 1)

\* the number a string of digits denotes
RECURSIVE DigitsVal(_)
DigitsVal(s) ==
    IF s = <<>> THEN 0
    ELSE 10 * DigitsVal(SubSeq(s, 1, Len(s) - 1)) + DigitVal(s[Len(s)])

ValueError == [ok |-> FALSE]

\* float(s) for [sign] digits [. digits]: the exact decimal, num / den
ParseFloat(s) ==
    LET t == Strip(s)
        signed == t # <<>> /\ Head(t) \in {"-", "+"}
        body == IF signed THEN Tail(t) ELSE t
        dots == {i \in DOMAIN body : body[i] = "."}
        dot == IF dots = {} THEN Len(body) + 1 ELSE CHOOSE i \in dots : TRUE
        whole == SubSeq(body, 1, dot - 1)
        frac == SubSeq(body, dot + 1, Len(body))
        wellformed ==
            /\ Cardinality(dots) <= 1
            /\ Len(whole) + Len(frac) >= 1
            /\ \A i \in DOMAIN whole : IsDigit(whole[i])
            /\ \A i \in DOMAIN frac : IsDigit(frac[i])
        magnitude == DigitsVal(whole \o frac)
    IN IF wellformed
       THEN [ok |-> TRUE,
             num |-> IF signed /\ Head(t) = "-" THEN 0 - magnitude ELSE magnitude,
             den |-> Pow10(Len(frac))]
       ELSE ValueError

\* a float literal of the source, as an exact decimal
Dec(num, den) == [ok |-> TRUE, num |-> num, den |-> den]

\* x < y on floats
Less(x, y) == x.num * y.den < y.num * x.den

\* int(s) for [sign] digits
ParseInt(s) ==
    LET t == Strip(s)
        signed == t # <<>> /\ Head(t) \in {"-", "+"}
        body == IF signed THEN Tail(t) ELSE t
        wellformed == body # <<>> /\ \A i \in DOMAIN body : IsDigit(body[i])
    IN IF wellformed
       THEN [ok |-> TRUE,
             val |-> IF signed /\ Head(t) = "-" THEN 0 - DigitsVal(body)
                     ELSE DigitsVal(body)]
       ELSE ValueError

-----------------------------------------------------------------------------
(* BeautifulSoup lookups on the document tree *)

\* row.find_all('td'), each with get_text(strip=True)
Cells(row) == [i \in DOMAIN row.td |-> Strip(row.td[i])]

\* table.find_all('tr')
Rows(table) == table.tr

\* rows[1:]
SkipHeader(rows) == IF rows = <<>> THEN <<>> ELSE Tail(rows)

\* the index of the first element of a sequence that satisfies a test, or 0
FirstIndex(s, test) ==
    IF \E i \in DOMAIN s : test[s[i]]
    THEN CHOOSE i \in DOMAIN s : test[s[i]] /\ \A j \in 1..(i - 1) : ~test[s[j]]
    ELSE 0

\* [f(x) for x in s if keep(x)] with f the identity
RECURSIVE Filter(_, _)
Filter(s, keep) ==
    IF s = <<>> THEN <<>>
    ELSE (IF keep[Head(s)] THEN <<Head(s)>> ELSE <<>>) \o Filter(Tail(s), keep)

\* for row in rows: cells = row.find_all('td'); if <enough cells>:
\*     d[key(cells[0])] = cells[1]     (a later row overwrites an earlier key)
\* exact: the test is len(cells) == 2, otherwise len(cells) >= 2;
\* nocolon: the key is cells[0].replace(':', '')
RECURSIVE RowsToDict(_, _, _)
RowsToDict(rows, exact, nocolon) ==
    IF rows = <<>> THEN EmptyDict
    ELSE LET last == rows[Len(rows)]
             before == RowsToDict(SubSeq(rows, 1, Len(rows) - 1), exact, nocolon)
             cells == Cells(last)
             enough == IF exact THEN Len(cells) = 2 ELSE Len(cells) >= 2
             key == IF nocolon THEN Replace(cells[1], ":", <<>>) ELSE cells[1]
         IN IF enough THEN Put(before, key, cells[2]) ELSE before

-----------------------------------------------------------------------------
(* parsers/baseline_parser.py *)

\* _extract_client_info: div#info-cliente, rows of exactly two cells,
\* every colon removed from the key
BaselineParser_extract_client_info(soup) ==
    LET info_section == soup.info_cliente
    IN IF info_section # None /\ info_section.table # None
       THEN RowsToDict(Rows(info_section.table), TRUE, TRUE)
       ELSE EmptyDict

StatusSpanClasses == {"status-good", "status-warning", "status-fail"}

\* _extract_wstd_diagnostics: div#wstd-section, the metric table without its
\* first row, and the text of the first status span
BaselineParser_extract_wstd_diagnostics(soup) ==
    LET wstd_section == soup.wstd_section
        status_spans ==
            LET all == wstd_section.span
                idx == {i \in DOMAIN all : all[i].class \in StatusSpanClasses}
            IN IF idx = {} THEN None
               ELSE all[CHOOSE i \in idx : \A j \in idx : i <= j]
        d1 == IF wstd_section.table # None
              THEN Put(EmptyDict, "metricas",
                       RowsToDict(SkipHeader(Rows(wstd_section.table)), FALSE, FALSE))
              ELSE EmptyDict
        d2 == IF status_spans # None
              THEN Put(d1, "estado", Strip(status_spans.text))
              ELSE d1
    IN IF wstd_section # None THEN d2 ELSE EmptyDict

\* _extract_process_details: div#process-details, rows of exactly two cells,
\* keys as they are
BaselineParser_extract_process_details(soup) ==
    LET process_section == soup.process_details
    IN IF process_section # None /\ process_section.table # None
       THEN RowsToDict(Rows(process_section.table), TRUE, FALSE)
       ELSE EmptyDict

\* _extract_correction_stats: div#correction-stats, first row skipped
BaselineParser_extract_correction_stats(soup) ==
    LET stats_section == soup.correction_stats
    IN IF stats_section # None /\ stats_section.table # None
       THEN RowsToDict(SkipHeader(Rows(stats_section.table)), FALSE, FALSE)
       ELSE EmptyDict

\* _extract_baseline_info: div#baseline-info, rows of exactly two cells
BaselineParser_extract_baseline_info(soup) ==
    LET baseline_section == soup.baseline_info
    IN IF baseline_section # None /\ baseline_section.table # None
       THEN RowsToDict(Rows(baseline_section.table), TRUE, FALSE)
       ELSE EmptyDict

KEY_RMS == <<"RMS">>
KEY_MAX_DIFF == <<"Diferencia Máxima">>
ZeroStr == <<"0">>

\* the thresholds with the labels of the two middle rows exchanged
GradeSwapped(rms, max_diff) ==
    IF Less(rms, Dec(5, 1000)) /\ Less(max_diff, Dec(1, 100)) THEN "EXCELENTE"
    ELSE IF Less(rms, Dec(1, 100)) /\ Less(max_diff, Dec(15, 1000)) THEN "ACEPTABLE"
    ELSE IF Less(rms, Dec(15, 1000)) /\ Less(max_diff, Dec(3, 100)) THEN "BUENO"
    ELSE "REQUIERE REVISIÓN"

\* the thresholds of _extract_verification on the parsed values
VerificationGrade(rms, max_diff) ==
    IF Less(rms, Dec(5, 1000)) /\ Less(max_diff, Dec(1, 100)) THEN "EXCELENTE"
    ELSE IF Less(rms, Dec(1, 100)) /\ Less(max_diff, Dec(15, 1000)) THEN "BUENO"
    ELSE IF Less(rms, Dec(15, 1000)) /\ Less(max_diff, Dec(3, 100)) THEN "ACEPTABLE"
    ELSE "REQUIERE REVISIÓN"

\* float(value), the comma left in place
FloatNoComma(value) == ParseFloat(value)

\* float(value.replace(',', '.'))
CleanFloat(value) == ParseFloat(Replace(value, ",", <<".">>))

\* the try block without the fallback of its except clause: a value that is
\* not a number falls through to the last row of the thresholds
StateNoFallback(metricas) ==
    LET rms == CleanFloat(Get(metricas, KEY_RMS, ZeroStr))
        max_diff == CleanFloat(Get(metricas, KEY_MAX_DIFF, ZeroStr))
    IN IF rms.ok /\ max_diff.ok THEN VerificationGrade(rms, max_diff)
       ELSE "REQUIERE REVISIÓN"

\* step 2 of _extract_verification: the try block that sets 'estado'
VerificationState(metricas) ==
    LET rms_str == Get(metricas, KEY_RMS, ZeroStr)
        max_diff_str == Get(metricas, KEY_MAX_DIFF, ZeroStr)
        rms == CleanFloat(rms_str)
        max_diff == CleanFloat(max_diff_str)
    IN IF rms.ok /\ max_diff.ok THEN VerificationGrade(rms, max_diff)
       ELSE "UNKNOWN"

StatusDivClasses == {"status-good", "status-warning", "status-bad", "status-fail"}

IsMetricsBox(box) ==
    box.h2 # None /\ Contains(box.h2.text, "Métricas de Verificación")

\* step 1 of _extract_verification: the metrics table of the first following
\* info-box whose h2 names the verification metrics
VerificationMetrics(verif_section, verification) ==
    LET info_boxes == Filter(verif_section.siblings,
                             [d \in Range(verif_section.siblings) |->
                                 "info-box" \in d.class])
        i == FirstIndex(info_boxes, [b \in Range(info_boxes) |-> IsMetricsBox(b)])
    IN IF i # 0 /\ info_boxes[i].table # None
       THEN Put(verification, "metricas",
                RowsToDict(SkipHeader(Rows(info_boxes[i].table)), FALSE, FALSE))
       ELSE verification

IsStatusDiv(div) == div.class \cap StatusDivClasses # {}

\* step 3 of _extract_verification: the status div inside the section or,
\* when there is none, the first following sibling with a status class
VerificationStatusDiv(verif_section) ==
    IF verif_section.status # <<>> THEN verif_section.status[1]
    ELSE LET i == FirstIndex(verif_section.siblings,
                             [d \in Range(verif_section.siblings) |-> IsStatusDiv(d)])
         IN IF i # 0 THEN verif_section.siblings[i] ELSE None

\* the conclusion: the non-empty paragraph texts joined by blanks
VerificationConclusion(status_div, verification) ==
    LET texts == [i \in DOMAIN status_div.p |-> Strip(status_div.p[i])]
        conclusion_parts == Filter(texts, [t \in Range(texts) |-> t # <<>>])
    IN IF status_div.p # <<>>
       THEN Put(verification, "conclusion", Join(conclusion_parts))
       ELSE verification

\* the recommendations: the items of the first list, when there are any
VerificationRecommendations(status_div, verification) ==
    LET recommendations ==
            [i \in DOMAIN status_div.ul.li |-> Strip(status_div.ul.li[i])]
    IN IF status_div.ul # None /\ status_div.ul.li # <<>>
       THEN Put(verification, "recomendaciones", recommendations)
       ELSE verification

\* _extract_verification
BaselineParser_extract_verification(soup) ==
    LET verif_section == soup.verification_section
        v1 == VerificationMetrics(verif_section, EmptyDict)
        v2 == IF Truthy(Get(v1, "metricas", EmptyDict))
              THEN Put(v1, "estado", VerificationState(v1["metricas"]))
              ELSE v1
        status_div == VerificationStatusDiv(verif_section)
        v3 == IF status_div # None
              THEN VerificationRecommendations(status_div,
                       VerificationConclusion(status_div, v2))
              ELSE v2
    IN IF verif_section = None THEN EmptyDict ELSE v3

\* id matches .*-plot$|plotly-.*
IsPlotId(id) == (id # <<>> /\ id[Len(id)] = "-plot") \/ Contains(id, "plotly-")

\* _extract_plotly_charts: the plot divs whose next sibling script calls
\* Plotly.newPlot
BaselineParser_extract_plotly_charts(soup) ==
    LET keep == [d \in Range(soup.plots) |->
                    /\ IsPlotId(d.id)
                    /\ d.script # None
                    /\ Contains(d.script.string, "Plotly.newPlot")]
        plot_divs == Filter(soup.plots, keep)
    IN [i \in DOMAIN plot_divs |->
           [id |-> plot_divs[i].id, script |-> plot_divs[i].script.string]]

\* parse
BaselineParser_parse(soup) ==
    [tipo_informe |-> "Baseline Adjustment",
     info_cliente |-> BaselineParser_extract_client_info(soup),
     diagnostico_wstd |-> BaselineParser_extract_wstd_diagnostics(soup),
     detalles_proceso |-> BaselineParser_extract_process_details(soup),
     estadisticas_correccion |-> BaselineParser_extract_correction_stats(soup),
     baseline_generado |-> BaselineParser_extract_baseline_info(soup),
     verificacion |-> BaselineParser_extract_verification(soup),
     graficos |-> BaselineParser_extract_plotly_charts(soup)]

\* _determine_status on self.data
BaselineParser_determine_status(data) ==
    LET verification == Get(data, "verificacion", EmptyDict)
        conclusion == Get(verification, "conclusion", EmptyStr)
    IN IF Truthy(verification)
       THEN IF Contains(Lower(conclusion), "exitosa")
               \/ Contains(Lower(conclusion), "correctamente") THEN "OK"
            ELSE IF Contains(Lower(conclusion), "warning")
               \/ Contains(Lower(conclusion), "revisar") THEN "WARNING"
            ELSE "FAIL"
       ELSE "UNKNOWN"

-----------------------------------------------------------------------------
(* parsers/validation_parser.py *)

\* _extract_service_info: div#info-servicio, rows of exactly two cells,
\* every colon removed from the key
ValidationParser_extract_service_info(soup) ==
    LET service_section == soup.info_servicio
    IN IF service_section # None /\ service_section.table # None
       THEN RowsToDict(Rows(service_section.table), TRUE, TRUE)
       ELSE EmptyDict

\* the status symbols ✅ ⚠️ ❌ (each one atom)
SymOk == "U+2705"
SymWarning == "U+26A0 U+FE0F"
SymFail == "U+274C"
StatusSymbols == {SymOk, SymWarning, SymFail}

\* re.sub(r'[✅⚠️❌]', '', label).strip()
CleanLabel(label) ==
    Strip(Filter(label, [a \in Range(label) |-> a \notin StatusSymbols]))

\* the metric cards that have a value and a label, as a dict
RECURSIVE CardsToDict(_)
CardsToDict(cards) ==
    IF cards = <<>> THEN EmptyDict
    ELSE LET card == cards[Len(cards)]
             before == CardsToDict(SubSeq(cards, 1, Len(cards) - 1))
         IN IF card.value # None /\ card.label # None
            THEN Put(before, CleanLabel(Strip(card.label.text)), Strip(card.value.text))
            ELSE before

\* for h3 in h3_tags: if 'VALIDACIÓN' in text: conclusion, descripcion
RECURSIVE SummaryConclusion(_, _)
SummaryConclusion(h3_tags, summary) ==
    IF h3_tags = <<>> THEN summary
    ELSE LET h3 == h3_tags[Len(h3_tags)]
             before == SummaryConclusion(SubSeq(h3_tags, 1, Len(h3_tags) - 1), summary)
             text == Strip(h3.text)
             s1 == Put(before, "conclusion", text)
         IN IF Contains(text, "VALIDACIÓN")
            THEN IF h3.next_p # None
                 THEN Put(s1, "descripcion", Strip(h3.next_p.text))
                 ELSE s1
            ELSE before

\* _extract_executive_summary: div#resumen-ejecutivo
ValidationParser_extract_executive_summary(soup) ==
    LET exec_section == soup.resumen_ejecutivo
    IN IF exec_section # None
       THEN SummaryConclusion(exec_section.h3,
                Put(EmptyDict, "metricas", CardsToDict(exec_section.cards)))
       ELSE EmptyDict

\* the cells of the rows that have at least n cells
WideRows(rows, n) ==
    LET wide == Filter(rows, [r \in Range(rows) |-> Len(r.td) >= n])
    IN [i \in DOMAIN wide |-> Cells(wide[i])]

CriterionRecord(cells) ==
    [parametro |-> cells[1], umbral |-> cells[2], descripcion |-> cells[3]]

\* _extract_validation_criteria: div#criterios-validacion
ValidationParser_extract_validation_criteria(soup) ==
    LET criteria_section == soup.criterios_validacion
    IN [criterios |->
           IF criteria_section # None /\ criteria_section.table # None
           THEN LET rows == WideRows(SkipHeader(Rows(criteria_section.table)), 3)
                IN [i \in DOMAIN rows |-> CriterionRecord(rows[i])]
           ELSE <<>>]

AggregateRecord(cells) ==
    [metrica |-> cells[1], minimo |-> cells[2], maximo |-> cells[3],
     media |-> cells[4], desv_est |-> cells[5]]

KeyMetricRecord(cells) ==
    [metrica |-> cells[1], valor |-> cells[2], evaluacion |-> cells[3]]

\* _extract_global_stats: the first two tables of div#estadisticas-globales
ValidationParser_extract_global_stats(soup) ==
    LET stats_section == soup.estadisticas_globales
        tables == stats_section.tables
        s1 == IF Len(tables) >= 1
              THEN LET rows == WideRows(SkipHeader(Rows(tables[1])), 5)
                   IN Put(EmptyDict, "metricas_agregadas",
                          [i \in DOMAIN rows |-> AggregateRecord(rows[i])])
              ELSE EmptyDict
        s2 == IF Len(tables) >= 2
              THEN LET rows == WideRows(SkipHeader(Rows(tables[2])), 3)
                   IN Put(s1, "metricas_clave",
                          [i \in DOMAIN rows |-> KeyMetricRecord(rows[i])])
              ELSE s1
    IN IF stats_section # None THEN s2 ELSE EmptyDict

\* str.upper(): the atoms of the status cells that have lower-case letters
Upper(text) ==
    [i \in DOMAIN text |->
        CASE text[i] = "ok" -> "OK"
          [] text[i] = "Ok" -> "OK"
          [] text[i] = "warning" -> "WARNING"
          [] text[i] = "Warning" -> "WARNING"
          [] text[i] = "fail" -> "FAIL"
          [] text[i] = "Fail" -> "FAIL"
          [] OTHER -> text[i]]

\* the status of a per-standard status cell
NormalizeStatus(estado_text) ==
    IF Contains(estado_text, SymOk) \/ Contains(Upper(estado_text), "OK") THEN "OK"
    ELSE IF Contains(estado_text, SymWarning) \/ Contains(Upper(estado_text), "WARNING")
    THEN "WARNING"
    ELSE IF Contains(estado_text, SymFail) \/ Contains(Upper(estado_text), "FAIL")
    THEN "FAIL"
    ELSE "UNKNOWN"

NotAvailable == <<"N/A">>

DetailRecord(cells) ==
    [estandar |-> cells[2], lampara_ref |-> cells[3], lampara_nueva |-> cells[4],
     correlacion |-> cells[5], max_diff |-> cells[6], rms |-> cells[7],
     shift |-> IF Len(cells) > 7 THEN cells[8] ELSE NotAvailable,
     estado |-> NormalizeStatus(cells[1])]

\* _extract_detailed_results: div#resultados-detallados, rows of 7 cells or more
ValidationParser_extract_detailed_results(soup) ==
    LET results_section == soup.resultados_detallados
    IN IF results_section # None /\ results_section.table # None
       THEN LET rows == WideRows(SkipHeader(Rows(results_section.table)), 7)
            IN [i \in DOMAIN rows |-> DetailRecord(rows[i])]
       ELSE <<>>

\* _extract_plotly_charts
ValidationParser_extract_plotly_charts(soup) ==
    BaselineParser_extract_plotly_charts(soup)

\* parse
ValidationParser_parse(soup) ==
    [tipo_informe |-> "Validación Óptica",
     info_servicio |-> ValidationParser_extract_service_info(soup),
     resumen_ejecutivo |-> ValidationParser_extract_executive_summary(soup),
     criterios_validacion |-> ValidationParser_extract_validation_criteria(soup),
     estadisticas_globales |-> ValidationParser_extract_global_stats(soup),
     resultados_detallados |-> ValidationParser_extract_detailed_results(soup),
     graficos |-> ValidationParser_extract_plotly_charts(soup)]

KEY_FALLIDOS == <<"Fallidos">>
KEY_REVISAR == <<"Revisar">>

\* the verdict with the Revisar count tested before the Fallidos count
ValidationStatusRevisarFirst(data) ==
    LET exec_summary == Get(data, "resumen_ejecutivo", EmptyDict)
        metricas == Get(exec_summary, "metricas", EmptyDict)
        fallidos == ParseInt(Get(metricas, KEY_FALLIDOS, ZeroStr))
        revisar == ParseInt(Get(metricas, KEY_REVISAR, ZeroStr))
    IN IF ~fallidos.ok \/ ~revisar.ok THEN "UNKNOWN"
       ELSE IF revisar.val > 0 THEN "WARNING"
       ELSE IF fallidos.val > 0 THEN "FAIL"
       ELSE "OK"

\* _determine_status on self.data (parsed first when self.data is empty):
\* both int() calls come before the comparisons, and a bare except gives
\* UNKNOWN
ValidationParser_determine_status(data) ==
    LET exec_summary == Get(data, "resumen_ejecutivo", EmptyDict)
        metricas == Get(exec_summary, "metricas", EmptyDict)
        fallidos == ParseInt(Get(metricas, KEY_FALLIDOS, ZeroStr))
        revisar == ParseInt(Get(metricas, KEY_REVISAR, ZeroStr))
    IN IF ~fallidos.ok \/ ~revisar.ok THEN "UNKNOWN"
       ELSE IF fallidos.val > 0 THEN "FAIL"
       ELSE IF revisar.val > 0 THEN "WARNING"
       ELSE "OK"

-----------------------------------------------------------------------------
(* parsers/predictions_parser.py *)

\* an exception that leaves the call
AttributeError == [k |-> "AttributeError"]

InfoSymbols == {"U+1F52C", "U+1F4C5", "U+1F4E6", "U+1F4A1"}
KEY_LAMPARAS == <<"Lámparas">>

\* re.sub(r'[🔬📅📦💡]', '', text).strip().replace(':', '').strip()
CleanInfoLabel(text) ==
    Strip(Replace(Strip(Filter(text, [a \in Range(text) |-> a \notin InfoSymbols])),
                  ":", <<>>))

RECURSIVE InfoItemsToDict(_)
InfoItemsToDict(items) ==
    IF items = <<>> THEN EmptyDict
    ELSE LET item == items[Len(items)]
             before == InfoItemsToDict(SubSeq(items, 1, Len(items) - 1))
         IN IF item.label # None /\ item.value # None
            THEN Put(before, CleanInfoLabel(Strip(item.label.text)),
                     Strip(item.value.text))
            ELSE before

\* _extract_general_info: the first div.info-box, its info-item label/value
\* pairs and the lamp list
PredictionsParser_extract_general_info(soup) ==
    LET info_box == soup.info_box
        info == InfoItemsToDict(info_box.items)
    IN IF info_box = None THEN EmptyDict
       ELSE IF info_box.ul # None
       THEN Put(info, KEY_LAMPARAS,
                [i \in DOMAIN info_box.ul.li |-> Strip(info_box.ul.li[i])])
       ELSE info

MediaSD == "(Media ± SD)"

\* th.get_text(separator='|', strip=True): the stripped non-empty text nodes
RECURSIVE JoinBar(_)
JoinBar(parts) ==
    IF parts = <<>> THEN <<>>
    ELSE IF Len(parts) = 1 THEN parts[1]
    ELSE parts[1] \o <<"|">> \o JoinBar(Tail(parts))

HeaderText(th) ==
    LET nodes == [i \in DOMAIN th |-> Strip(th[i])]
        text == JoinBar(Filter(nodes, [t \in Range(nodes) |-> t # <<>>]))
    IN Strip(Replace(text, MediaSD, <<>>))

\* for i, cell in enumerate(cells): if i < len(headers): d[headers[i]] = value
RECURSIVE LampDict(_, _)
LampDict(headers, cells) ==
    IF cells = <<>> THEN EmptyDict
    ELSE LET i == Len(cells)
             before == LampDict(headers, SubSeq(cells, 1, i - 1))
         IN IF i <= Len(headers) THEN Put(before, headers[i], cells[i]) ELSE before

\* headers[2:]
Drop2(s) == IF Len(s) <= 2 THEN <<>> ELSE SubSeq(s, 3, Len(s))

\* the body of the loop of _extract_products_data for a section that has an
\* h3 and a table
ProductOf(section) ==
    LET header_row == section.table.thead.tr
        headers == [i \in DOMAIN header_row.th |-> HeaderText(header_row.th[i])]
        tbody == section.table.tbody
        rows == IF tbody # None
                THEN Filter(tbody.tr, [r \in Range(tbody.tr) |-> Len(r.td) > 0])
                ELSE <<>>
    IN [nombre |-> Strip(section.h3.text),
        parametros |-> Drop2(headers),
        lamparas |-> [i \in DOMAIN rows |-> LampDict(headers, Cells(rows[i]))]]

\* table.find('thead').find('tr') and header_row.find_all('th') on a missing
\* thead or a missing header row
HeaderRowRaises(section) ==
    section.table.thead = None \/ section.table.thead.tr = None

\* _extract_products_data: one product per div.section with an h3 and a table
PredictionsParser_extract_products_data(soup) ==
    LET sections == Filter(soup.sections,
                           [x \in Range(soup.sections) |->
                               x.h3 # None /\ x.table # None])
    IN IF \E i \in DOMAIN sections : HeaderRowRaises(sections[i])
       THEN [raised |-> TRUE, productos |-> <<>>]
       ELSE [raised |-> FALSE,
             productos |-> [i \in DOMAIN sections |-> ProductOf(sections[i])]]

\* _extract_plotly_charts: the scripts that call Plotly.newPlot('<id>'
\* (div_id is what the regular expression captures, None without a match)
PredictionsParser_extract_plotly_charts(soup) ==
    LET scripts == Filter(soup.scripts,
                          [x \in Range(soup.scripts) |->
                              /\ Contains(x.string, "Plotly.newPlot")
                              /\ x.div_id # None])
    IN [i \in DOMAIN scripts |->
           [id |-> scripts[i].div_id.text, script |-> scripts[i].string]]

\* parse
PredictionsParser_parse(soup) ==
    LET productos == PredictionsParser_extract_products_data(soup)
    IN IF productos.raised THEN AttributeError
       ELSE [tipo_informe |-> "Predicciones con Muestras Reales",
             info_general |-> PredictionsParser_extract_general_info(soup),
             productos |-> productos.productos,
             graficos |-> PredictionsParser_extract_plotly_charts(soup)]

\* _determine_status on self.data (parsed first when self.data is empty)
PredictionsParser_determine_status(data) ==
    LET productos == Get(data, "productos", <<>>)
    IN IF Len(productos) > 0 THEN "OK" ELSE "UNKNOWN"

-----------------------------------------------------------------------------
(* consolidator_v2.py: the consolidator object and the reconciler *)

\* __init__
ReportConsolidatorV2_init ==
    [baseline_data |-> None, baseline_html |-> None,
     validation_data |-> None, validation_html |-> None,
     predictions_data |-> None, predictions_html |-> None,
     service_info |-> EmptyDict]

add_baseline(self, data, html) ==
    [self EXCEPT !.baseline_data = data, !.baseline_html = html]

\* an add_validation that starts from a fresh object
AddValidationFresh(self, data, html) ==
    [ReportConsolidatorV2_init EXCEPT !.validation_data = data,
                                      !.validation_html = html]

add_validation(self, data, html) ==
    [self EXCEPT !.validation_data = data, !.validation_html = html]

add_predictions(self, data, html) ==
    [self EXCEPT !.predictions_data = data, !.predictions_html = html]

set_service_info(self, service_info) ==
    [self EXCEPT !.service_info = service_info]

\* truth value of an attribute that is None, empty or an object
IsSet(x) == x # None /\ x # <<>>

\* the baseline branch of _determine_global_status
GlobalBaselineVerdict(baseline_data) ==
    LET verification == Get(baseline_data, "verificacion", EmptyDict)
        conclusion == Get(verification, "conclusion", EmptyStr)
    IN IF Contains(Lower(conclusion), "exitosa") THEN "OK" ELSE "WARNING"

\* the validation branch of _determine_global_status
GlobalValidationVerdict(validation_data) ==
    LET exec_summary == Get(validation_data, "resumen_ejecutivo", EmptyDict)
        metricas == Get(exec_summary, "metricas", EmptyDict)
        fallidos == ParseInt(Get(metricas, KEY_FALLIDOS, ZeroStr))
        revisar == ParseInt(Get(metricas, KEY_REVISAR, ZeroStr))
    IN IF ~fallidos.ok \/ ~revisar.ok THEN "UNKNOWN"
       ELSE IF fallidos.val > 0 THEN "FAIL"
       ELSE IF revisar.val > 0 THEN "WARNING"
       ELSE "OK"

\* the predictions branch of _determine_global_status
GlobalPredictionsVerdict(predictions_data) == "OK"

\* the list 'statuses' of _determine_global_status
GlobalStatuses(self) ==
    (IF IsSet(self.baseline_data)
     THEN <<GlobalBaselineVerdict(self.baseline_data)>> ELSE <<>>)
    \o (IF IsSet(self.validation_data)
        THEN <<GlobalValidationVerdict(self.validation_data)>> ELSE <<>>)
    \o (IF IsSet(self.predictions_data)
        THEN <<GlobalPredictionsVerdict(self.predictions_data)>> ELSE <<>>)

\* the priority logic with WARNING tested before FAIL
PriorityWarningFirst(statuses) ==
    IF Contains(statuses, "WARNING") THEN "WARNING"
    ELSE IF Contains(statuses, "FAIL") THEN "FAIL"
    ELSE IF Contains(statuses, "OK") THEN "OK"
    ELSE "UNKNOWN"

\* the priority logic of _determine_global_status: FAIL > WARNING > OK
Priority(statuses) ==
    IF Contains(statuses, "FAIL") THEN "FAIL"
    ELSE IF Contains(statuses, "WARNING") THEN "WARNING"
    ELSE IF Contains(statuses, "OK") THEN "OK"
    ELSE "UNKNOWN"

determine_global_status(self) == Priority(GlobalStatuses(self))

-----------------------------------------------------------------------------
(* consolidator_v2.py: the renderer.  The rendered document is the record   *)
(* of the values the f-strings interpolate, in document order.              *)

KEY_CORRECCION_MAXIMA == <<"Corrección Máxima">>
KEY_TOTAL == <<"Total Estándares">>
KEY_VALIDADOS == <<"Validados">>
KEY_PRODUCTOS == <<"Productos Analizados">>
KEY_LAMPARAS_COMPARADAS == <<"Lámparas Comparadas">>
KEY_SENSOR_NIR == <<"Sensor NIR">>
KEY_FECHA_REPORTE == <<"Fecha del Reporte">>
KEY_LAMPARA == <<"Lámpara">>
KEY_N == <<"N">>

\* _get_status_description: one text per status, the last one for any other
\* a description that tells only OK from the rest
StatusDescriptionTwoWay(status) ==
    IF status = "OK"
    THEN "Todos los procesos de validación han sido completados exitosamente. El equipo está correctamente alineado y listo para uso en producción."
    ELSE "Estado de validación indeterminado. Revisar informes individuales."

get_status_description(status) ==
    CASE status = "OK" -> "Todos los procesos de validación han sido completados exitosamente. El equipo está correctamente alineado y listo para uso en producción."
      [] status = "WARNING" -> "Algunos resultados requieren revisión. Consultar las secciones detalladas para más información."
      [] status = "FAIL" -> "La validación ha fallado. El equipo requiere ajustes antes de ser utilizado en producción."
      [] OTHER -> "Estado de validación indeterminado. Revisar informes individuales."

\* the status box of _generate_executive_summary
StatusBanner(estado_global) ==
    [class |-> CASE estado_global = "OK" -> "ok"
                 [] estado_global = "WARNING" -> "warning"
                 [] estado_global = "FAIL" -> "fail"
                 [] OTHER -> "info",
     icon |-> CASE estado_global = "OK" -> SymOk
                [] estado_global = "WARNING" -> SymWarning
                [] estado_global = "FAIL" -> SymFail
                [] OTHER -> "U+2139 U+FE0F",
     text |-> CASE estado_global = "OK" -> "VALIDACIÓN EXITOSA"
                [] estado_global = "WARNING" -> "REVISAR RESULTADOS"
                [] estado_global = "FAIL" -> "VALIDACIÓN FALLIDA"
                [] OTHER -> "ESTADO DESCONOCIDO",
     description |-> get_status_description(estado_global)]

\* the baseline metric card: the parsed record has no 'summary' entry
BaselineCard(baseline_data) ==
    LET summary == Get(baseline_data, "summary", EmptyDict)
        stats == Get(baseline_data, "estadisticas_correccion", EmptyDict)
    IN [label |-> "Baseline Adjustment", class |-> "info",
        value |-> Get(stats, KEY_CORRECCION_MAXIMA, NotAvailable),
        estado |-> Get(summary, "estado_global", NotAvailable)]

\* the validation metric card
ValidationCard(validation_data) ==
    LET exec_summary == Get(validation_data, "resumen_ejecutivo", EmptyDict)
        metricas == Get(exec_summary, "metricas", EmptyDict)
        fallidos == Get(metricas, KEY_FALLIDOS, ZeroStr)
    IN [label |-> "Validación Óptica",
        class |-> IF fallidos = ZeroStr THEN "ok" ELSE "fail",
        total |-> Get(metricas, KEY_TOTAL, ZeroStr),
        validados |-> Get(metricas, KEY_VALIDADOS, ZeroStr),
        revisar |-> Get(metricas, KEY_REVISAR, ZeroStr),
        fallidos |-> fallidos]

\* the predictions metric card
PredictionsCard(predictions_data) ==
    LET info == Get(predictions_data, "info_general", EmptyDict)
    IN [label |-> "Predicciones", class |-> "info",
        productos |-> Get(info, KEY_PRODUCTOS, NotAvailable),
        lamparas |-> Get(info, KEY_LAMPARAS_COMPARADAS, NotAvailable)]

\* an executive summary whose status box does not follow the global status
ExecutiveSummaryOkBanner(self) ==
    [total |-> Cardinality({f \in {"baseline_data", "validation_data",
                                      "predictions_data"} : IsSet(self[f])}),
     metrics_cards |-> <<>>,
     banner |-> StatusBanner("OK")]

\* _generate_executive_summary
generate_executive_summary(self) ==
    LET estado_global == determine_global_status(self)
        metrics_cards ==
            (IF IsSet(self.baseline_data)
             THEN <<BaselineCard(self.baseline_data)>> ELSE <<>>)
            \o (IF IsSet(self.validation_data)
                THEN <<ValidationCard(self.validation_data)>> ELSE <<>>)
            \o (IF IsSet(self.predictions_data)
                THEN <<PredictionsCard(self.predictions_data)>> ELSE <<>>)
    IN [total |-> Cardinality({f \in {"baseline_data", "validation_data",
                                      "predictions_data"} : IsSet(self[f])}),
        metrics_cards |-> metrics_cards,
        banner |-> StatusBanner(estado_global)]

\* _generate_index: one link per raw document that is set
generate_index(self) ==
    <<"#resumen-ejecutivo">>
    \o (IF IsSet(self.baseline_html) THEN <<"#baseline">> ELSE <<>>)
    \o (IF IsSet(self.validation_html) THEN <<"#validation">> ELSE <<>>)
    \o (IF IsSet(self.predictions_html) THEN <<"#predictions">> ELSE <<>>)

\* _generate_header: the service table, the context and the notes
generate_header(self) ==
    [sensor_id |-> Get(self.service_info, "sensor_id", NotAvailable),
     fecha |-> Get(self.service_info, "fecha", NotAvailable),
     cliente |-> Get(self.service_info, "cliente", NotAvailable),
     tecnico |-> Get(self.service_info, "tecnico", NotAvailable),
     ubicacion |-> Get(self.service_info, "ubicacion", NotAvailable),
     modelo |-> Get(self.service_info, "modelo", NotAvailable),
     contexto |-> Get(self.service_info, "contexto", EmptyStr),
     notas |-> Get(self.service_info, "notas", EmptyStr)]

\* _generate_baseline_summary
generate_baseline_summary(self) ==
    LET diagnostico == Get(self.baseline_data, "diagnostico_wstd", EmptyDict)
        verificacion == Get(self.baseline_data, "verificacion", EmptyDict)
    IN [info_rows |-> Get(self.baseline_data, "info_cliente", EmptyDict),
        diagnostico |->
            IF Truthy(Get(diagnostico, "metricas", EmptyDict))
            THEN [estado |-> Get(diagnostico, "estado", NotAvailable),
                  diag_rows |-> diagnostico["metricas"]]
            ELSE None,
        stats_rows |-> Get(self.baseline_data, "estadisticas_correccion", EmptyDict),
        verif |->
            IF Truthy(Get(verificacion, "metricas", EmptyDict))
            THEN [verif_rows |-> verificacion["metricas"],
                  conclusion |-> Get(verificacion, "conclusion", EmptyStr)]
            ELSE None]

StatusIcon(estado) ==
    CASE estado = "OK" -> SymOk
      [] estado = "WARNING" -> SymWarning
      [] estado = "FAIL" -> SymFail
      [] OTHER -> "U+2139 U+FE0F"

\* _generate_validation_summary
generate_validation_summary(self) ==
    LET exec_summary == Get(self.validation_data, "resumen_ejecutivo", EmptyDict)
        metrics == Get(exec_summary, "metricas", EmptyDict)
        criterios == Get(self.validation_data, "criterios_validacion", EmptyDict)
        global_stats == Get(self.validation_data, "estadisticas_globales", EmptyDict)
        detailed == Get(self.validation_data, "resultados_detallados", <<>>)
    IN [service_rows |-> Get(self.validation_data, "info_servicio", EmptyDict),
        total |-> Get(metrics, KEY_TOTAL, ZeroStr),
        validados |-> Get(metrics, KEY_VALIDADOS, ZeroStr),
        revisar |-> Get(metrics, KEY_REVISAR, ZeroStr),
        fallidos |-> Get(metrics, KEY_FALLIDOS, ZeroStr),
        criterios_rows |-> Get(criterios, "criterios", <<>>),
        stats_rows |-> Get(global_stats, "metricas_agregadas", <<>>),
        detail_rows |->
            [i \in DOMAIN detailed |->
                [estandar |-> detailed[i].estandar,
                 lampara_ref |-> detailed[i].lampara_ref,
                 lampara_nueva |-> detailed[i].lampara_nueva,
                 correlacion |-> detailed[i].correlacion,
                 max_diff |-> detailed[i].max_diff,
                 rms |-> detailed[i].rms,
                 status_icon |-> StatusIcon(detailed[i].estado),
                 estado |-> detailed[i].estado]]]

\* s[-n:]
TakeLast(s, n) == IF Len(s) <= n THEN s ELSE SubSeq(s, Len(s) - n + 1, Len(s))

\* s[:n]
Take(s, n) == IF Len(s) <= n THEN s ELSE SubSeq(s, 1, n)

\* p.split('|')[0]
BeforeBar(p) ==
    LET bars == {i \in DOMAIN p : p[i] = "|"}
    IN IF bars = {} THEN p
       ELSE SubSeq(p, 1, (CHOOSE i \in bars : \A j \in bars : i <= j) - 1)

InlineProducts == 3
InlineParams == 4

\* the table of one product of _generate_predictions_summary
ProductTable(producto) ==
    LET params == Take(producto.parametros, InlineParams)
    IN [nombre |-> producto.nombre,
        param_headers |-> [i \in DOMAIN params |-> BeforeBar(params[i])],
        lamparas_rows |->
            [r \in DOMAIN producto.lamparas |->
                [lampara |-> Get(producto.lamparas[r], KEY_LAMPARA, NotAvailable),
                 n |-> Get(producto.lamparas[r], KEY_N, NotAvailable),
                 params_cells |->
                     [i \in DOMAIN params |->
                         Get(producto.lamparas[r], params[i], NotAvailable)]]]]

\* _generate_predictions_summary
generate_predictions_summary(self) ==
    LET info_general == Get(self.predictions_data, "info_general", EmptyDict)
        productos == Get(self.predictions_data, "productos", <<>>)
        shown == Take(productos, InlineProducts)
    IN [sensor |-> Get(info_general, KEY_SENSOR_NIR, NotAvailable),
        fecha |-> Get(info_general, KEY_FECHA_REPORTE, NotAvailable),
        productos_analizados |-> Get(info_general, KEY_PRODUCTOS, NotAvailable),
        lamparas_comparadas |-> Get(info_general, KEY_LAMPARAS_COMPARADAS, NotAvailable),
        lamparas |-> Get(info_general, KEY_LAMPARAS, <<>>),
        productos |-> [i \in DOMAIN shown |-> ProductTable(shown[i])],
        more |-> IF Len(productos) > InlineProducts
                 THEN Len(productos) - InlineProducts ELSE 0]

\* '</body>' in html_content
HasBodyClose(html_content) ==
    html_content # <<>> /\ "body_close" \in DOMAIN html_content

\* html_modified: the sidebar script goes in front of </body>, or at the end
InjectScript(html_content) ==
    [document |-> html_content, script |-> "sidebar_fix_script",
     position |-> IF HasBodyClose(html_content) THEN "before </body>" ELSE "end"]

\* base64.b64encode(x.encode('utf-8')).decode('utf-8'): an encoding of the
\* text that atob() inverts
B64Encode(text) == [k |-> "base64", of_utf8 |-> text]
B64Decode(encoded) == encoded.of_utf8

IdModulus == 100000

\* f"btn-{section_id}-{id(html_content) % 100000}"
ButtonId(section_id, address) ==
    [prefix |-> "btn", section |-> section_id, id |-> address % IdModulus]

\* _generate_collapsible_section: the summary, the toggle button and the
\* blob the button opens (the document with the sidebar script injected)
generate_collapsible_section(section_id, parsed_summary, html_content, address) ==
    [id |-> section_id, parsed_summary |-> parsed_summary,
     button_id |-> ButtonId(section_id, address),
     html_base64 |-> B64Encode(InjectScript(html_content))]

\* generate_html; memory[t] is id() of the raw document of report t
generate_html(self, memory) ==
    [k |-> "html",
     title |-> Get(self.service_info, "sensor_id", NotAvailable),
     index_items |-> generate_index(self),
     header |-> generate_header(self),
     executive_summary |-> generate_executive_summary(self),
     sections |->
        (IF IsSet(self.baseline_html) /\ IsSet(self.baseline_data)
         THEN <<generate_collapsible_section("baseline",
                    generate_baseline_summary(self), self.baseline_html,
                    memory.baseline)>>
         ELSE <<>>)
        \o (IF IsSet(self.validation_html) /\ IsSet(self.validation_data)
            THEN <<generate_collapsible_section("validation",
                       generate_validation_summary(self), self.validation_html,
                    memory.validation)>>
            ELSE <<>>)
        \o (IF IsSet(self.predictions_html) /\ IsSet(self.predictions_data)
            THEN <<generate_collapsible_section("predictions",
                       generate_predictions_summary(self), self.predictions_html,
                    memory.predictions)>>
            ELSE <<>>)]

-----------------------------------------------------------------------------
(* The documents the extractors are run on *)

MaxParagraphs == 2
MaxMissing == 1
MaxCount == 2
MaxProducts == 5

Table(rows) == [k |-> "table", tr |-> rows]
Row(cells) == [td |-> cells]
HeaderRow == [td |-> <<>>]
Div(table) == [k |-> "div", table |-> table]
Text(tag, text) == [k |-> tag, text |-> text]

\* decimal strings 0<sep>ddd around the thresholds, and 0.02
Millis == {3, 5, 8, 10, 12, 15, 20, 30}
MilliStr(m, sep) ==
    <<"0", sep, Digits[((m \div 100) % 10) + 1], Digits[((m \div 10) % 10) + 1],
      Digits[(m % 10) + 1]>>
DecimalStrs ==
    {MilliStr(m, sep) : m \in Millis, sep \in {".", ","}} \cup {<<"0", ".", "0", "2">>}
BadNumberStrs == {<<"N/A">>, <<>>, <<"0", ".", "0", "0", "3", " ", "AU">>}
NumberStrs == DecimalStrs \cup BadNumberStrs

\* the rows of a metrics table: a header row, then the rows that are present
MetricRows(rms, max_diff) ==
    <<HeaderRow>>
    \o (IF rms = None THEN <<>> ELSE <<Row(<<KEY_RMS, rms.text>>)>>)
    \o (IF max_diff = None THEN <<>> ELSE <<Row(<<KEY_MAX_DIFF, max_diff.text>>)>>)
    \o <<Row(<<<<"Correlación">>, <<"0", ".", "9", "9", "9">>>>)>>

OptionalNumbers(strs) == {None} \cup {Text("td", x) : x \in strs}

InfoBox(h2, table) ==
    [k |-> "div", class |-> {"info-box"}, h2 |-> h2, table |-> table,
     p |-> <<>>, ul |-> None]

\* the info-boxes that follow the verification section
MetricsBoxes ==
    {<<>>,
     <<InfoBox(Text("h2", <<"Métricas de Verificación">>), None)>>,
     <<InfoBox(None, Table(MetricRows(None, None))),
       InfoBox(Text("h2", <<"Otros">>), None)>>}
    \cup {<<InfoBox(Text("h2", <<"Otros">>), None),
            InfoBox(Text("h2", <<"U+1F4CA", " ", "Métricas de Verificación">>),
                    Table(MetricRows(rms, max_diff)))>> :
            rms \in OptionalNumbers(NumberStrs),
            max_diff \in OptionalNumbers(NumberStrs)}

FewMetricsBoxes ==
    {b \in MetricsBoxes :
        \/ b = <<>>
        \/ /\ Len(b) = 2 /\ b[2].table # None
           /\ b[2].table.tr \in
                {MetricRows(None, None),
                 MetricRows(Text("td", MilliStr(3, ".")), Text("td", MilliStr(8, "."))),
                 MetricRows(Text("td", <<"N/A">>), Text("td", MilliStr(20, ",")))}}

\* the paragraph texts of a conclusion
ConclusionTexts ==
    {<<>>,
     <<"Ajuste", " ", "completado", " ", "correctamente">>,
     <<"Verificación", " ", "EXITOSA">>,
     <<"Revisar", " ", "resultados">>,
     <<"WARNING", ":", " ", "deriva">>,
     <<"Ajuste", " ", "fallido">>,
     <<" ", "Exitosa", " ", "pero", " ", "revisar", " ">>}

Paragraphs ==
    UNION {[1..n -> ConclusionTexts] : n \in 0..MaxParagraphs}

StatusDiv(class, p, ul) ==
    [k |-> "div", class |-> {class}, h2 |-> None, table |-> None, p |-> p, ul |-> ul]

Lists == {None, [k |-> "ul", li |-> <<>>],
          [k |-> "ul", li |-> <<<<"Repetir", " ", "WSTD">>, <<" ", "Limpiar", " ">>>>]}

\* the status markup: nothing, a status div inside the section, a following
\* sibling, or both
StatusMarkups ==
    {[status |-> <<>>, siblings |-> <<>>]}
    \cup {[status |-> <<StatusDiv("status-good", p, ul)>>, siblings |-> <<>>] :
             p \in Paragraphs, ul \in Lists}
    \cup {[status |-> <<>>, siblings |-> <<StatusDiv("status-bad", p, None)>>] :
             p \in Paragraphs}
    \cup {[status |-> <<StatusDiv("status-warning", <<t>>, None)>>,
           siblings |-> <<StatusDiv("status-fail", <<<<"Ajuste", " ", "fallido">>>>, None)>>] :
             t \in ConclusionTexts}

FewStatusMarkups ==
    {[status |-> <<>>, siblings |-> <<>>],
     [status |-> <<StatusDiv("status-good",
                             <<<<"Verificación", " ", "EXITOSA">>, <<>>>>,
                             [k |-> "ul", li |-> <<<<"Repetir", " ", "WSTD">>>>])>>,
      siblings |-> <<>>]}

VerificationSection(boxes, markup) ==
    [k |-> "div", status |-> markup.status, siblings |-> boxes \o markup.siblings]

\* the verification part of the documents: every metrics table with a few
\* status markups, and every status markup with a few metrics tables
VerificationSections ==
    {None}
    \cup {VerificationSection(b, m) : b \in MetricsBoxes, m \in FewStatusMarkups}
    \cup {VerificationSection(b, m) : b \in FewMetricsBoxes, m \in StatusMarkups}

FewVerificationSections ==
    {None,
     VerificationSection(<<>>, [status |-> <<>>, siblings |-> <<>>])}
    \cup {VerificationSection(b, m) :
             b \in {x \in FewMetricsBoxes : Len(x) = 2}, m \in FewStatusMarkups}

\* the other sections of a baseline document, all present
BaselineFull ==
    [info_cliente |->
        Div(Table(<<Row(<<<<"ID del Sensor", ":">>, <<" ", "NIR-001", " ">>>>),
                    Row(<<<<"Cliente", ":">>, <<"ACME">>>>),
                    Row(<<<<"Hora", ":", "min", ":">>, <<"10", ":", "30">>>>),
                    Row(<<<<"Nota">>>>)>>)),
     wstd_section |->
        [k |-> "div",
         table |-> Table(<<HeaderRow, Row(<<<<"Desviación">>, <<"0", ".", "0", "1">>>>)>>),
         span |-> <<[class |-> "badge", text |-> <<"WSTD">>],
                    [class |-> "status-warning", text |-> <<"Warning">>]>>],
     process_details |->
        Div(Table(<<Row(<<<<"Configuración", ":">>, <<"A">>>>)>>)),
     correction_stats |->
        Div(Table(<<HeaderRow,
                    Row(<<KEY_CORRECCION_MAXIMA, <<"0", ".", "0", "2">>>>),
                    Row(<<<<"RMS de la Corrección">>, <<"0", ".", "0", "1">>, <<"AU">>>>)>>)),
     baseline_info |->
        Div(Table(<<Row(<<<<"Archivo">>, <<"baseline.ref">>>>)>>)),
     plots |->
        <<[id |-> <<"spectra", "-plot">>,
           script |-> [k |-> "script", string |-> <<"Plotly.newPlot", "(...)">>]],
          [id |-> <<"plotly-", "x">>, script |-> None]>>]

BaselineSectionNames ==
    {"info_cliente", "wstd_section", "process_details", "correction_stats",
     "baseline_info"}

\* a section without its table
WithoutTable(name) ==
    IF name = "wstd_section" THEN [k |-> "div", table |-> None, span |-> <<>>]
    ELSE Div(None)

\* the layouts: at most MaxMissing sections absent or without their table
BaselineLayouts ==
    {[name \in DOMAIN BaselineFull |->
         IF name \in absent THEN None
         ELSE IF name \in empty THEN WithoutTable(name)
         ELSE BaselineFull[name]] :
       <<absent, empty>> \in
          {x \in (SUBSET BaselineSectionNames) \X (SUBSET BaselineSectionNames) :
              x[1] \cap x[2] = {} /\ Cardinality(x[1] \cup x[2]) <= MaxMissing}}
    \cup {[name \in DOMAIN BaselineFull |->
              IF name = "plots" THEN <<>> ELSE None]}

BaselineDocument(layout, verification_section) ==
    [k |-> "baseline",
     info_cliente |-> layout.info_cliente,
     wstd_section |-> layout.wstd_section,
     process_details |-> layout.process_details,
     correction_stats |-> layout.correction_stats,
     baseline_info |-> layout.baseline_info,
     verification_section |-> verification_section,
     plots |-> layout.plots]

BaselineDocs ==
    {BaselineDocument(BaselineFull, v) : v \in VerificationSections}
    \cup {BaselineDocument(l, v) :
             l \in BaselineLayouts, v \in FewVerificationSections}

\* count strings: the integers 0..MaxCount, 10, -1, and strings int() rejects
IntStr(n) == <<Digits[n + 1]>>
CountStrs ==
    {IntStr(n) : n \in 0..MaxCount}
    \cup {<<"1", "0">>, <<"-", "1">>, <<" ", "2">>}
    \cup {<<"N/A">>, <<>>, <<"1", ".", "0">>}

Card(label, value) == [k |-> "div", label |-> label, value |-> value]

\* the metric cards of an executive summary
MetricCards(revisar, fallidos) ==
    <<Card(Text("div", <<"Total Estándares">>), Text("div", <<"1", "0">>)),
      Card(Text("div", <<SymOk, " ", "Validados">>), Text("div", <<"7">>)),
      Card(None, Text("div", <<"9">>))>>
    \o (IF revisar = None THEN <<>>
        ELSE <<Card(Text("div", <<SymWarning, " ", "Revisar">>), revisar)>>)
    \o (IF fallidos = None THEN <<>>
        ELSE <<Card(Text("div", <<SymFail, " ", "Fallidos">>), fallidos)>>)

Heading(text, next_p) == [k |-> "h3", text |-> text, next_p |-> next_p]

ExecutiveSection(cards, h3) == [k |-> "div", cards |-> cards, h3 |-> h3]

StdHeadings ==
    <<Heading(<<"Detalle">>, None),
      Heading(<<SymOk, " ", "VALIDACIÓN", " ", "EXITOSA">>,
              Text("p", <<"Todos", " ", "validados">>))>>

ExecutiveSections ==
    {None, ExecutiveSection(<<>>, <<>>),
     ExecutiveSection(<<Card(Text("div", <<"Fallidos">>), None)>>, StdHeadings)}
    \cup {ExecutiveSection(MetricCards(r, f), StdHeadings) :
             r \in OptionalNumbers(CountStrs), f \in OptionalNumbers(CountStrs)}

FewExecutiveSections ==
    {None,
     ExecutiveSection(MetricCards(Text("div", <<"1">>), Text("div", <<"0">>)),
                      StdHeadings)}

DetailRow(estado, shift) ==
    Row(<<estado, <<"V01">>, <<"L-REF">>, <<"L-NEW">>, <<"0", ".", "9", "9", "9">>,
          <<"0", ".", "0", "0", "2">>, <<"0", ".", "0", "0", "1">>>> \o shift)

\* the other sections of a validation document, all present
ValidationFull ==
    [info_servicio |->
        Div(Table(<<Row(<<<<"ID del Sensor", ":">>, <<"NIR-001">>>>),
                    Row(<<<<"Fecha del Informe", ":">>, <<"2025-01-15">>>>)>>)),
     criterios_validacion |->
        Div(Table(<<HeaderRow,
                    Row(<<<<"Correlación">>, <<">", " ", "0.999">>, <<"Mínima">>>>),
                    Row(<<<<"RMS">>, <<"<", " ", "0.005">>>>)>>)),
     estadisticas_globales |->
        [k |-> "div",
         tables |->
            <<Table(<<HeaderRow,
                      Row(<<<<"RMS">>, <<"0.001">>, <<"0.003">>, <<"0.002">>, <<"0.001">>>>),
                      Row(<<<<"Max">>, <<"0.002">>>>)>>),
              Table(<<HeaderRow,
                      Row(<<<<"Offset Global">>, <<"0.001">>, <<"OK">>>>)>>)>>],
     resultados_detallados |->
        Div(Table(<<HeaderRow,
                    DetailRow(<<SymOk, " ", "OK">>, <<<<"0.1">>>>),
                    DetailRow(<<SymWarning, " ", "WARNING">>, <<>>),
                    DetailRow(<<SymFail, " ", "FAIL">>, <<>>),
                    DetailRow(<<"ok">>, <<>>),
                    DetailRow(<<"-">>, <<>>),
                    DetailRow(<<SymFail, " ", "NO", " ", "OK">>, <<>>),
                    Row(<<<<SymOk>>, <<"V09">>>>)>>)),
     plots |-> <<>>]

ValidationSectionNames ==
    {"info_servicio", "criterios_validacion", "estadisticas_globales",
     "resultados_detallados"}

ValidationWithoutTable(name) ==
    IF name = "estadisticas_globales" THEN [k |-> "div", tables |-> <<>>]
    ELSE Div(None)

ValidationLayouts ==
    {[name \in DOMAIN ValidationFull |->
         IF name \in absent THEN None
         ELSE IF name \in empty THEN ValidationWithoutTable(name)
         ELSE ValidationFull[name]] :
       <<absent, empty>> \in
          {x \in (SUBSET ValidationSectionNames) \X (SUBSET ValidationSectionNames) :
              x[1] \cap x[2] = {} /\ Cardinality(x[1] \cup x[2]) <= MaxMissing}}
    \cup {[name \in DOMAIN ValidationFull |->
              IF name = "plots" THEN <<>> ELSE None]}

ValidationDocument(layout, exec_section) ==
    [k |-> "validation",
     info_servicio |-> layout.info_servicio,
     resumen_ejecutivo |-> exec_section,
     criterios_validacion |-> layout.criterios_validacion,
     estadisticas_globales |-> layout.estadisticas_globales,
     resultados_detallados |-> layout.resultados_detallados,
     plots |-> layout.plots]

ValidationDocs ==
    {ValidationDocument(ValidationFull, e) : e \in ExecutiveSections}
    \cup {ValidationDocument(l, e) :
             l \in ValidationLayouts, e \in FewExecutiveSections}

\* a product section of a predictions document
HeaderCells ==
    <<<<<<"Lámpara">>>>, <<<<"N">>>>,
      <<<<"Proteína">>, <<MediaSD>>>>, <<<<" ", "Grasa">>, <<MediaSD>>>>,
      <<<<"Humedad">>>>, <<<<"Cenizas">>>>, <<<<"Fibra">>>>>>

LampRows ==
    <<Row(<<<<"L-REF">>, <<"5">>, <<"12.1 ± 0.2">>, <<"3.4 ± 0.1">>,
            <<"10.0">>, <<"1.1">>, <<"2.2">>>>),
      Row(<<<<"L-NEW">>, <<"5">>, <<"12.3 ± 0.2">>>>),
      Row(<<>>),
      Row(<<<<"L-3">>, <<"4">>, <<"12.0">>, <<"3.3">>, <<"9.9">>, <<"1.0">>,
            <<"2.1">>, <<"extra">>>>)>>

ProductTableElement(thead, tbody) ==
    [k |-> "table", thead |-> thead, tbody |-> tbody]

Thead(tr) == [k |-> "thead", tr |-> tr]
Tbody(rows) == [k |-> "tbody", tr |-> rows]

ProductSection(h3, table) == [k |-> "div", h3 |-> h3, table |-> table]

StdProduct(i) ==
    ProductSection(Text("h3", <<"Producto", " ", Digits[i + 1]>>),
                   ProductTableElement(Thead([th |-> HeaderCells]), Tbody(LampRows)))

\* a first section with a part missing
ProductVariants ==
    {ProductSection(None, ProductTableElement(Thead([th |-> HeaderCells]), Tbody(LampRows))),
     ProductSection(Text("h3", <<"Resumen">>), None),
     ProductSection(Text("h3", <<"Sin cabecera">>),
                    ProductTableElement(None, Tbody(LampRows))),
     ProductSection(Text("h3", <<"Sin fila">>),
                    ProductTableElement(Thead(None), Tbody(LampRows))),
     ProductSection(Text("h3", <<"Sin cuerpo">>),
                    ProductTableElement(Thead([th |-> HeaderCells]), None)),
     ProductSection(Text("h3", <<"Corta">>),
                    ProductTableElement(Thead([th |-> <<<<<<"Lámpara">>>>>>]),
                                        Tbody(LampRows)))}

InfoItem(label, value) == [k |-> "div", label |-> label, value |-> value]

InfoBoxes ==
    {None,
     [k |-> "div",
      items |-> <<InfoItem(Text("span", <<"U+1F52C", " ", "Sensor NIR", ":">>),
                           Text("span", <<"NIR-001">>)),
                  InfoItem(Text("span", <<"Productos Analizados", ":">>),
                           Text("span", <<"5">>)),
                  InfoItem(Text("span", <<"Sin valor">>), None)>>,
      ul |-> [k |-> "ul", li |-> <<<<"L-REF">>, <<"L-NEW">>>>]],
     [k |-> "div",
      items |-> <<InfoItem(Text("span", <<"Fecha del Reporte", ":">>),
                           Text("span", <<"2025-01-15">>))>>,
      ul |-> None]}

PredictionsDocument(info_box, sections) ==
    [k |-> "predictions", info_box |-> info_box, sections |-> sections,
     scripts |-> <<[string |-> <<"Plotly.newPlot", "(...)">>,
                    div_id |-> Text("id", <<"plot1">>)],
                   [string |-> <<"console.log">>, div_id |-> None]>>]

\* n well-formed product sections, optionally after one with a part missing
ProductSections ==
    {[i \in 1..n |-> StdProduct(i)] : n \in 0..MaxProducts}
    \cup {<<v>> \o [i \in 1..n |-> StdProduct(i)] :
             v \in ProductVariants, n \in 0..(MaxProducts - 1)}

PredictionsDocs ==
    {PredictionsDocument(b, x) : b \in InfoBoxes, x \in ProductSections}

-----------------------------------------------------------------------------
(* One extractor object: constructed on a document, then parse() and         *)
(* _determine_status() are called in any order.  'result' is what the last   *)
(* call returned or raised.                                                  *)

ParseReturned(data) == [k |-> "data", data |-> data]
StatusReturned(status) == [k |-> "status", status |-> status]

\* __init__ of the three parsers: self.soup, self.data = {}
NewParser(class, soup) == [class |-> class, soup |-> soup, data |-> EmptyDict]

Parsers ==
    {NewParser("BaselineParser", d) : d \in BaselineDocs}
    \cup {NewParser("ValidationParser", d) : d \in ValidationDocs}
    \cup {NewParser("PredictionsParser", d) : d \in PredictionsDocs}

InitParsers ==
    /\ parser \in Parsers
    /\ result = None
    /\ uploads = None
    /\ consolidator = None
    /\ pc = "idle"
    /\ output = None
    /\ session = None
    /\ heap = None

BaselineParse ==
    /\ parser.class = "BaselineParser"
    /\ parser' = [parser EXCEPT !.data = BaselineParser_parse(parser.soup)]
    /\ result' = ParseReturned(parser'.data)
    /\ UNCHANGED <<uploads, consolidator, pc, output, session, heap>>

BaselineDetermineStatus ==
    /\ parser.class = "BaselineParser"
    /\ result' = StatusReturned(BaselineParser_determine_status(parser.data))
    /\ UNCHANGED <<parser, uploads, consolidator, pc, output, session, heap>>

ValidationParse ==
    /\ parser.class = "ValidationParser"
    /\ parser' = [parser EXCEPT !.data = ValidationParser_parse(parser.soup)]
    /\ result' = ParseReturned(parser'.data)
    /\ UNCHANGED <<uploads, consolidator, pc, output, session, heap>>

ValidationDetermineStatus ==
    /\ parser.class = "ValidationParser"
    /\ parser' = IF Truthy(parser.data) THEN parser
                 ELSE [parser EXCEPT !.data = ValidationParser_parse(parser.soup)]
    /\ result' = StatusReturned(ValidationParser_determine_status(parser'.data))
    /\ UNCHANGED <<uploads, consolidator, pc, output, session, heap>>

PredictionsParse ==
    /\ parser.class = "PredictionsParser"
    /\ LET data == PredictionsParser_parse(parser.soup)
       IN IF data = AttributeError
          THEN /\ result' = AttributeError
               /\ UNCHANGED parser
          ELSE /\ parser' = [parser EXCEPT !.data = data]
               /\ result' = ParseReturned(data)
    /\ UNCHANGED <<uploads, consolidator, pc, output, session, heap>>

PredictionsDetermineStatus ==
    /\ parser.class = "PredictionsParser"
    /\ LET data == IF Truthy(parser.data) THEN parser.data
                   ELSE PredictionsParser_parse(parser.soup)
       IN IF data = AttributeError
          THEN /\ result' = AttributeError
               /\ UNCHANGED parser
          ELSE /\ parser' = [parser EXCEPT !.data = data]
               /\ result' = StatusReturned(PredictionsParser_determine_status(data))
    /\ UNCHANGED <<uploads, consolidator, pc, output, session, heap>>

NextParsers ==
    \/ BaselineParse
    \/ BaselineDetermineStatus
    \/ ValidationParse
    \/ ValidationDetermineStatus
    \/ PredictionsParse
    \/ PredictionsDetermineStatus

SpecParsers == InitParsers /\ [][NextParsers]_vars

-----------------------------------------------------------------------------
(* app.py: one run of generate_consolidated_report on the uploaded           *)
(* documents.  'pc' is the position in the function, 'output' what the page  *)
(* shows at the end.                                                         *)

\* the documents that are uploaded
AppStatusMarkups ==
    {[status |-> <<>>, siblings |-> <<>>]}
    \cup {[status |-> <<StatusDiv("status-good", <<t>>, None)>>, siblings |-> <<>>] :
             t \in ConclusionTexts}

AppMetricsBoxes ==
    {<<>>,
     <<InfoBox(Text("h2", <<"Métricas de Verificación">>),
               Table(MetricRows(Text("td", MilliStr(3, ".")),
                                Text("td", MilliStr(8, ".")))))>>}

AppBaselineDocs ==
    {BaselineDocument(BaselineFull, None)}
    \cup {BaselineDocument(BaselineFull, VerificationSection(b, m)) :
             b \in AppMetricsBoxes, m \in AppStatusMarkups}

AppCounts == OptionalNumbers({IntStr(0), IntStr(MaxCount), <<"N/A">>})

AppValidationDocs ==
    {ValidationDocument(ValidationFull, None)}
    \cup {ValidationDocument(ValidationFull,
                             ExecutiveSection(MetricCards(r, f), StdHeadings)) :
             r \in AppCounts, f \in AppCounts}

AppPredictionsDocs ==
    {PredictionsDocument(CHOOSE b \in InfoBoxes : b # None /\ b.ul # None, x) :
        x \in {y \in ProductSections :
                  \/ /\ Len(y) \in {0, 1, InlineProducts, InlineProducts + 1, MaxProducts}
                     /\ y = [i \in DOMAIN y |-> StdProduct(i)]
                  \/ Len(y) = 1 /\ (y[1].table = None \/ y[1].table.thead = None)}}

\* st.session_state.service_info: the form's values
ServiceInfos ==
    {[sensor_id |-> <<>>, fecha |-> <<>>, tecnico |-> <<>>, cliente |-> <<>>,
      ubicacion |-> <<>>, modelo |-> <<>>,
      mantenimiento |-> FALSE, ajuste_baseline |-> FALSE,
      lampara_referencia |-> <<>>, lampara_nueva |-> <<>>,
      validacion_optica |-> FALSE, predicciones_muestras |-> FALSE,
      notas |-> <<>>],
     [sensor_id |-> <<"NIR-001">>, fecha |-> <<"2025-01-15">>,
      tecnico |-> <<"T. Vila">>, cliente |-> <<"ACME">>,
      ubicacion |-> <<"Planta 1">>, modelo |-> <<"ProxiMate">>,
      mantenimiento |-> TRUE, ajuste_baseline |-> TRUE,
      lampara_referencia |-> <<"L-REF">>, lampara_nueva |-> <<"L-NEW">>,
      validacion_optica |-> TRUE, predicciones_muestras |-> FALSE,
      notas |-> <<"Cambio de lámpara">>]}

Uploads ==
    {u \in [baseline_html : {None} \cup AppBaselineDocs,
            validation_html : {None} \cup AppValidationDocs,
            predictions_html : {None} \cup AppPredictionsDocs,
            service_info : ServiceInfos] :
        \* main() returns before the form when files_loaded == 0
        u.baseline_html # None \/ u.validation_html # None \/ u.predictions_html # None}

\* where the three uploaded strings live: id() differs from run to run
Heaps ==
    {[baseline |-> 140230011, validation |-> 140231072, predictions |-> 140239984],
     [baseline |-> 139877216, validation |-> 139877000, predictions |-> 139870512]}

Init ==
    /\ uploads \in Uploads
    /\ heap \in Heaps
    /\ consolidator = None
    /\ pc = "start"
    /\ output = None
    /\ parser = None
    /\ result = None
    /\ session = None

\* consolidator = ReportConsolidatorV2(); consolidator.set_service_info(...)
Start ==
    /\ pc = "start"
    /\ consolidator' = set_service_info(ReportConsolidatorV2_init, uploads.service_info)
    /\ pc' = "baseline"
    /\ UNCHANGED <<parser, result, uploads, output, session, heap>>

\* if baseline_html: parse and add_baseline
ProcessBaseline ==
    /\ pc = "baseline"
    /\ consolidator' =
          IF uploads.baseline_html # None
          THEN add_baseline(consolidator, BaselineParser_parse(uploads.baseline_html),
                            uploads.baseline_html)
          ELSE consolidator
    /\ pc' = "validation"
    /\ UNCHANGED <<parser, result, uploads, output, session, heap>>

\* if validation_html: parse and add_validation
ProcessValidation ==
    /\ pc = "validation"
    /\ consolidator' =
          IF uploads.validation_html # None
          THEN add_validation(consolidator, ValidationParser_parse(uploads.validation_html),
                              uploads.validation_html)
          ELSE consolidator
    /\ pc' = "predictions"
    /\ UNCHANGED <<parser, result, uploads, output, session, heap>>

\* if predictions_html: parse and add_predictions; an exception goes to the
\* except clause of the function
ProcessPredictions ==
    /\ pc = "predictions"
    /\ LET data == IF uploads.predictions_html # None
                   THEN PredictionsParser_parse(uploads.predictions_html)
                   ELSE None
       IN IF data = AttributeError
          THEN /\ pc' = "error"
               /\ output' = [k |-> "error", exception |-> AttributeError]
               /\ UNCHANGED consolidator
          ELSE /\ consolidator' =
                     IF uploads.predictions_html # None
                     THEN add_predictions(consolidator, data, uploads.predictions_html)
                     ELSE consolidator
               /\ pc' = "generate"
               /\ UNCHANGED output
    /\ UNCHANGED <<parser, result, uploads, session, heap>>

\* consolidated_html = consolidator.generate_html()
GenerateHtml ==
    /\ pc = "generate"
    /\ output' = [k |-> "generated", html |-> generate_html(consolidator, heap)]
    /\ pc' = "status"
    /\ UNCHANGED <<parser, result, uploads, consolidator, session, heap>>

\* status = consolidator._determine_global_status(), then the download button
DetermineStatus ==
    /\ pc = "status"
    /\ output' = [k |-> "report", html |-> output.html,
                  status |-> determine_global_status(consolidator)]
    /\ pc' = "done"
    /\ UNCHANGED <<parser, result, uploads, consolidator, session, heap>>

Next ==
    \/ Start
    \/ ProcessBaseline
    \/ ProcessValidation
    \/ ProcessPredictions
    \/ GenerateHtml
    \/ DetermineStatus

Spec == Init /\ [][Next]_vars

-----------------------------------------------------------------------------
(* Properties of the reconciler, checked on the runs of Spec *)

Verdicts == {"OK", "WARNING", "FAIL", "UNKNOWN"}
ReportTypes == {"baseline", "validation", "predictions"}

\* the lists of 0 to 3 per-report verdicts
VerdictLists == UNION {[1..n -> Verdicts] : n \in 0..Cardinality(ReportTypes)}

Precedence(verdicts) ==
    IF \E i \in DOMAIN verdicts : verdicts[i] = "FAIL" THEN "FAIL"
    ELSE IF \E i \in DOMAIN verdicts : verdicts[i] = "WARNING" THEN "WARNING"
    ELSE IF \E i \in DOMAIN verdicts : verdicts[i] = "OK" THEN "OK"
    ELSE "UNKNOWN"

\* C1: for every list of 0 to 3 verdicts the reconciler's result is FAIL if
\* any verdict is FAIL, else WARNING if any is WARNING, else OK if any is OK,
\* else UNKNOWN; the status a run ends with is that result for the verdicts
\* of the reports it was given, and a FAIL validation verdict with an OK
\* baseline verdict ends with FAIL.
C1_Precedence ==
    /\ \A verdicts \in VerdictLists : Priority(verdicts) = Precedence(verdicts)
    /\ pc = "done" =>
          /\ output.status = Precedence(GlobalStatuses(consolidator))
          /\ (/\ IsSet(consolidator.baseline_data)
              /\ IsSet(consolidator.validation_data)
              /\ GlobalBaselineVerdict(consolidator.baseline_data) = "OK"
              /\ GlobalValidationVerdict(consolidator.validation_data) = "FAIL")
             => output.status = "FAIL"

C1_Witness ==
    /\ pc = "done"
    /\ IsSet(consolidator.baseline_data)
    /\ IsSet(consolidator.validation_data)
    /\ GlobalBaselineVerdict(consolidator.baseline_data) = "OK"
    /\ GlobalValidationVerdict(consolidator.validation_data) = "FAIL"
    /\ output.status = "FAIL"

\* the verdict the conclusion text stands for
KeywordVerdict(baseline_data) ==
    LET verification == baseline_data["verificacion"]
        conclusion == Lower(verification["conclusion"])
    IN IF "conclusion" \notin DOMAIN verification THEN "UNKNOWN"
       ELSE IF Contains(conclusion, "exitosa") \/ Contains(conclusion, "correctamente")
       THEN "OK"
       ELSE IF Contains(conclusion, "warning") \/ Contains(conclusion, "revisar")
       THEN "WARNING"
       ELSE "FAIL"

\* C2: the baseline verdict the reconciler uses is OK when the conclusion has
\* 'exitosa' or 'correctamente' (any case), else WARNING when it has
\* 'warning' or 'revisar', else FAIL, and UNKNOWN when the record has no
\* conclusion; 'Ajuste completado correctamente' gives OK.
C2_BaselineVerdictFromConclusion ==
    (pc = "done" /\ uploads.baseline_html # None) =>
        LET data == consolidator.baseline_data
            verdict == GlobalBaselineVerdict(data)
        IN /\ verdict = KeywordVerdict(data)
           /\ (/\ "conclusion" \in DOMAIN data["verificacion"]
               /\ data["verificacion"]["conclusion"] =
                     <<"Ajuste", " ", "completado", " ", "correctamente">>)
              => verdict = "OK"

Supplied(u) ==
    {t \in ReportTypes :
        \/ t = "baseline" /\ u.baseline_html # None
        \/ t = "validation" /\ u.validation_html # None
        \/ t = "predictions" /\ u.predictions_html # None}

\* C3: a run given exactly one report ends with a complete document and a
\* global status equal to the verdict that report's own extractor computes.
C3_SingleReportStatus ==
    (pc = "done" /\ Cardinality(Supplied(uploads)) = 1) =>
        /\ output.k = "report"
        /\ output.html.k = "html"
        /\ Len(output.html.sections) = 1
        /\ output.status =
              IF uploads.baseline_html # None
              THEN BaselineParser_determine_status(consolidator.baseline_data)
              ELSE IF uploads.validation_html # None
              THEN ValidationParser_determine_status(consolidator.validation_data)
              ELSE PredictionsParser_determine_status(consolidator.predictions_data)

\* C5: the predictions verdict, the reconciler's included, is OK exactly when
\* at least one product was extracted and UNKNOWN otherwise.
C5_PredictionsVerdict ==
    (pc = "done" /\ uploads.predictions_html # None) =>
        LET data == consolidator.predictions_data
            expected == IF Len(data.productos) > 0 THEN "OK" ELSE "UNKNOWN"
        IN /\ PredictionsParser_determine_status(data) = expected
           /\ GlobalPredictionsVerdict(data) = expected

-----------------------------------------------------------------------------
(* Properties of the extractors, checked on the runs of SpecParsers *)

\* the value cards of a validation document labelled with a count's name
CardText(soup, name) ==
    LET exec_section == soup.resumen_ejecutivo
        named == IF exec_section = None THEN {}
                 ELSE {i \in DOMAIN exec_section.cards :
                          /\ exec_section.cards[i].label # None
                          /\ exec_section.cards[i].value # None
                          /\ Contains(exec_section.cards[i].label.text, name)}
    IN IF named = {} THEN ZeroStr
       ELSE Strip(exec_section.cards[CHOOSE i \in named : TRUE].value.text)

\* the integer a count string of the documents stands for
CountOf(s) ==
    IF \E n \in 0..MaxCount : s = IntStr(n)
    THEN [ok |-> TRUE, val |-> CHOOSE n \in 0..MaxCount : s = IntStr(n)]
    ELSE IF s = <<"1", "0">> THEN [ok |-> TRUE, val |-> 10]
    ELSE IF s = <<"-", "1">> THEN [ok |-> TRUE, val |-> 0 - 1]
    ELSE [ok |-> FALSE]

\* C4: the validation verdict is FAIL when the Fallidos count is above 0,
\* else WARNING when the Revisar count is above 0, else OK, and UNKNOWN when
\* either count is not an integer; the reconciler's verdict for the same
\* record is the same.
C4_ValidationVerdict ==
    (parser.class = "ValidationParser" /\ result.k = "status") =>
        LET fallidos == CountOf(CardText(parser.soup, "Fallidos"))
            revisar == CountOf(CardText(parser.soup, "Revisar"))
            expected == IF ~fallidos.ok \/ ~revisar.ok THEN "UNKNOWN"
                        ELSE IF fallidos.val > 0 THEN "FAIL"
                        ELSE IF revisar.val > 0 THEN "WARNING"
                        ELSE "OK"
        IN /\ result.status = expected
           /\ GlobalValidationVerdict(parser.data) = expected

C4_Witness ==
    /\ parser.class = "ValidationParser"
    /\ result = StatusReturned("WARNING")
    /\ CardText(parser.soup, "Fallidos") = IntStr(0)
    /\ CardText(parser.soup, "Revisar") = IntStr(MaxCount)
    /\ GlobalValidationVerdict(parser.data) = "WARNING"

\* the value cells of a baseline document's metric rows named key
SoupMetric(soup, key) ==
    LET section == soup.verification_section
        tables == IF section = None THEN {}
                  ELSE {section.siblings[i].table :
                           i \in {j \in DOMAIN section.siblings :
                                     section.siblings[j].table # None}}
    IN UNION {{Strip(t.tr[i].td[2]) :
                  i \in {j \in DOMAIN t.tr :
                            Len(t.tr[j].td) >= 2 /\ t.tr[j].td[1] = key}} :
              t \in tables}

\* the thousandths a decimal string of the documents stands for
Thousandths(s) ==
    IF Len(s) = 5
    THEN 100 * DigitVal(s[3]) + 10 * DigitVal(s[4]) + DigitVal(s[5])
    ELSE 10 * (10 * DigitVal(s[3]) + DigitVal(s[4]))

\* the state of the thresholds table, on thousandths
ThresholdState(rms, max_diff) ==
    IF rms < 5 /\ max_diff < 10 THEN "EXCELENTE"
    ELSE IF rms < 10 /\ max_diff < 15 THEN "BUENO"
    ELSE IF rms < 15 /\ max_diff < 30 THEN "ACEPTABLE"
    ELSE "REQUIERE REVISIÓN"

BaselineParsed == parser.class = "BaselineParser" /\ result.k = "data"

\* C6: with RMS and Maximum Difference written with '.' or ',' the state is
\* EXCELENTE below (0.005, 0.01), else BUENO below (0.01, 0.015), else
\* ACEPTABLE below (0.015, 0.03), else REQUIERE REVISIÓN; (0.003, 0.008) is
\* EXCELENTE and ('0,012', '0.02') is ACEPTABLE.
C6_ThresholdStates ==
    BaselineParsed =>
        LET estado == result.data.verificacion["estado"]
            rms == SoupMetric(parser.soup, KEY_RMS)
            max_diff == SoupMetric(parser.soup, KEY_MAX_DIFF)
        IN /\ \A r \in rms \cap DecimalStrs, d \in max_diff \cap DecimalStrs :
                 estado = ThresholdState(Thousandths(r), Thousandths(d))
           /\ (rms = {<<"0", ".", "0", "0", "3">>}
               /\ max_diff = {<<"0", ".", "0", "0", "8">>}) => estado = "EXCELENTE"
           /\ (rms = {<<"0", ",", "0", "1", "2">>}
               /\ max_diff = {<<"0", ".", "0", "2">>}) => estado = "ACEPTABLE"

C6_Witness ==
    /\ BaselineParsed
    /\ SoupMetric(parser.soup, KEY_RMS) = {<<"0", ",", "0", "1", "2">>}
    /\ SoupMetric(parser.soup, KEY_MAX_DIFF) = {<<"0", ".", "0", "2">>}
    /\ result.data.verificacion["estado"] = "ACEPTABLE"

Rank(estado) ==
    CASE estado = "EXCELENTE" -> 3
      [] estado = "BUENO" -> 2
      [] estado = "ACEPTABLE" -> 1
      [] estado = "REQUIERE REVISIÓN" -> 0

\* C7: the state is monotonic: with either value lower (and the other not
\* higher) the state is never worse, with either value higher (and the other
\* not lower) it is never better.
C7_Monotonic ==
    BaselineParsed =>
        LET v == result.data.verificacion
        IN \A r \in SoupMetric(parser.soup, KEY_RMS) \cap DecimalStrs,
              d \in SoupMetric(parser.soup, KEY_MAX_DIFF) \cap DecimalStrs :
              \A r2 \in DecimalStrs, d2 \in DecimalStrs :
                 LET other == VerificationState(
                                 Put(Put(v["metricas"], KEY_RMS, r2), KEY_MAX_DIFF, d2))
                 IN /\ (Thousandths(r2) <= Thousandths(r)
                        /\ Thousandths(d2) <= Thousandths(d))
                       => Rank(other) >= Rank(v["estado"])
                    /\ (Thousandths(r2) >= Thousandths(r)
                        /\ Thousandths(d2) >= Thousandths(d))
                       => Rank(other) <= Rank(v["estado"])

C7_Witness ==
    /\ BaselineParsed
    /\ SoupMetric(parser.soup, KEY_RMS) = {MilliStr(8, ",")}
    /\ SoupMetric(parser.soup, KEY_MAX_DIFF) = {MilliStr(12, ".")}
    /\ result.data.verificacion["estado"] = "BUENO"
    /\ VerificationState(Put(Put(result.data.verificacion["metricas"],
                                 KEY_RMS, MilliStr(3, ".")),
                             KEY_MAX_DIFF, MilliStr(12, "."))) = "BUENO"
    /\ VerificationState(Put(Put(result.data.verificacion["metricas"],
                                 KEY_RMS, MilliStr(8, ",")),
                             KEY_MAX_DIFF, MilliStr(15, "."))) = "ACEPTABLE"

\* a metric row with an unparsable RMS or Maximum Difference value replaced
\* by a parseable one
GoodRow(row) ==
    IF /\ Len(row.td) >= 2
       /\ row.td[1] \in {KEY_RMS, KEY_MAX_DIFF}
       /\ Strip(row.td[2]) \in BadNumberStrs
    THEN Row(<<row.td[1], MilliStr(3, ".")>>)
    ELSE row

GoodBox(box) ==
    IF box.table = None THEN box
    ELSE [box EXCEPT !.table =
             Table([i \in DOMAIN box.table.tr |-> GoodRow(box.table.tr[i])])]

WithGoodMetrics(soup) ==
    LET section == soup.verification_section
    IN [soup EXCEPT !.verification_section =
           [section EXCEPT !.siblings =
               [i \in DOMAIN section.siblings |-> GoodBox(section.siblings[i])]]]

BadMetrics(soup) ==
    (SoupMetric(soup, KEY_RMS) \cup SoupMetric(soup, KEY_MAX_DIFF)) \cap BadNumberStrs

\* C8: with an RMS or Maximum Difference value that is not a number the state
\* is UNKNOWN, parse() returns, and the rest of the record (the metrics
\* mapping, the conclusion, the recommendations, every other section) is what
\* it is with parseable values.
C8_UnparsableIsUnknown ==
    (parser.class = "BaselineParser" /\ result # None
        /\ BadMetrics(parser.soup) # {}) =>
        /\ result.k \in {"data", "status"}
        /\ LET data == parser.data
               other == BaselineParser_parse(WithGoodMetrics(parser.soup))
               v == data.verificacion
               v2 == other.verificacion
           IN Truthy(data) =>
                 /\ v["estado"] = "UNKNOWN"
                 /\ \A f \in DOMAIN data \ {"verificacion"} : data[f] = other[f]
                 /\ DOMAIN v = DOMAIN v2
                 /\ \A key \in DOMAIN v \ {"estado", "metricas"} : v[key] = v2[key]
                 /\ DOMAIN v["metricas"] = DOMAIN v2["metricas"]
                 /\ \A key \in DOMAIN v["metricas"] :
                       IF key \in {KEY_RMS, KEY_MAX_DIFF}
                       THEN SoupMetric(parser.soup, key) = {v["metricas"][key]}
                       ELSE v["metricas"][key] = v2["metricas"][key]

C8_Witness ==
    /\ BaselineParsed
    /\ SoupMetric(parser.soup, KEY_RMS) = {<<"N/A">>}
    /\ SoupMetric(parser.soup, KEY_MAX_DIFF) = {MilliStr(20, ",")}
    /\ result.data.verificacion["estado"] = "UNKNOWN"
    /\ "conclusion" \in DOMAIN result.data.verificacion
    /\ "recomendaciones" \in DOMAIN result.data.verificacion

\* a document with another status markup after the same info-boxes
WithMarkup(soup, markup) ==
    LET section == soup.verification_section
        boxes == Filter(section.siblings,
                        [d \in Range(section.siblings) |-> "info-box" \in d.class])
    IN [soup EXCEPT !.verification_section = VerificationSection(boxes, markup)]

\* a verification record without its metrics and state, and with other ones
OtherMetrics(verification) ==
    LET rest == [key \in DOMAIN verification \ {"metricas", "estado"} |->
                    verification[key]]
    IN {rest,
        Put(Put(rest, "metricas", Put(EmptyDict, KEY_RMS, MilliStr(20, "."))),
            "estado", "REQUIERE REVISIÓN")}

\* C9: the state is a function of the RMS and Maximum Difference values only
\* (the same under any conclusion text or status markup), and the pass/fail
\* verdict is a function of the conclusion only (the same under any metrics
\* or state, or none).
C9_GradeAndVerdictSeparate ==
    (parser.class = "BaselineParser" /\ Truthy(parser.data)) =>
        LET v == parser.data.verificacion
        IN /\ "metricas" \in DOMAIN v =>
                 \A m \in AppStatusMarkups :
                    BaselineParser_parse(WithMarkup(parser.soup, m)).verificacion["estado"]
                       = v["estado"]
           /\ \A v2 \in OtherMetrics(v) :
                 BaselineParser_determine_status([parser.data EXCEPT !.verificacion = v2])
                    = BaselineParser_determine_status(parser.data)

\* C10: parse() returns a record for every document, whatever part is
\* missing, and a missing part gives an empty mapping or list.
C10_ParseNeverRaises ==
    /\ result # AttributeError
    /\ BaselineParsed =>
          (parser.soup.wstd_section = None => result.data.diagnostico_wstd = EmptyDict)


-----------------------------------------------------------------------------
(* The consolidator object driven through its public methods, in any order *)

\* a document whose text contains </body>
BodyClosed(document) == [body_close |-> TRUE] @@ document

ApiBaselineDocs ==
    {BodyClosed(CHOOSE d \in AppBaselineDocs :
                   GlobalBaselineVerdict(BaselineParser_parse(d)) = "OK")}

ApiValidationDocs ==
    {CHOOSE d \in AppValidationDocs :
        GlobalValidationVerdict(ValidationParser_parse(d)) = "FAIL"}

ApiPredictionsDocs ==
    {CHOOSE d \in AppPredictionsDocs : PredictionsParser_parse(d) # AttributeError}

\* the arguments of add_*: None, an empty dict or a parsed record; None, an
\* empty string or a document
ApiRecords(parsed) == {None, EmptyDict} \cup parsed
ApiHtmls(documents) == {None, EmptyStr} \cup documents

ApiBaselineArgs ==
    ApiRecords({BaselineParser_parse(d) : d \in ApiBaselineDocs})
        \X ApiHtmls(ApiBaselineDocs)
ApiValidationArgs ==
    ApiRecords({ValidationParser_parse(d) : d \in ApiValidationDocs})
        \X ApiHtmls(ApiValidationDocs)
ApiPredictionsArgs ==
    ApiRecords({PredictionsParser_parse(d) : d \in ApiPredictionsDocs})
        \X ApiHtmls(ApiPredictionsDocs)

InitConsolidator ==
    /\ consolidator = ReportConsolidatorV2_init
    /\ heap \in Heaps
    /\ output = None
    /\ pc = "api"
    /\ parser = None
    /\ result = None
    /\ uploads = None
    /\ session = None

\* consolidator.add_baseline(data, html)
AddBaseline ==
    /\ pc = "api"
    /\ \E args \in ApiBaselineArgs :
          consolidator' = add_baseline(consolidator, args[1], args[2])
    /\ output' = None
    /\ UNCHANGED <<parser, result, uploads, pc, session, heap>>

\* consolidator.add_validation(data, html)
AddValidation ==
    /\ pc = "api"
    /\ \E args \in ApiValidationArgs :
          consolidator' = add_validation(consolidator, args[1], args[2])
    /\ output' = None
    /\ UNCHANGED <<parser, result, uploads, pc, session, heap>>

\* consolidator.add_predictions(data, html)
AddPredictions ==
    /\ pc = "api"
    /\ \E args \in ApiPredictionsArgs :
          consolidator' = add_predictions(consolidator, args[1], args[2])
    /\ output' = None
    /\ UNCHANGED <<parser, result, uploads, pc, session, heap>>

\* consolidator.set_service_info(info)
SetServiceInfo ==
    /\ pc = "api"
    /\ \E info \in ServiceInfos :
          consolidator' = set_service_info(consolidator, info)
    /\ output' = None
    /\ UNCHANGED <<parser, result, uploads, pc, session, heap>>

\* consolidator.generate_html(): the method assigns to no attribute
CallGenerateHtml ==
    /\ pc = "api"
    /\ output' = [k |-> "html", html |-> generate_html(consolidator, heap)]
    /\ UNCHANGED <<parser, result, uploads, consolidator, pc, session, heap>>

\* consolidator._determine_global_status()
CallDetermineStatus ==
    /\ pc = "api"
    /\ output' = [k |-> "status", status |-> determine_global_status(consolidator)]
    /\ UNCHANGED <<parser, result, uploads, consolidator, pc, session, heap>>

NextConsolidator ==
    \/ AddBaseline
    \/ AddValidation
    \/ AddPredictions
    \/ SetServiceInfo
    \/ CallGenerateHtml
    \/ CallDetermineStatus

SpecConsolidator == InitConsolidator /\ [][NextConsolidator]_vars

-----------------------------------------------------------------------------
(* Properties of the consolidator object, checked on the runs of           *)
(* SpecConsolidator                                                        *)

CardLabel(t) ==
    CASE t = "baseline" -> "Baseline Adjustment"
      [] t = "validation" -> "Validación Óptica"
      [] t = "predictions" -> "Predicciones"

\* the four places report t can appear in, for the document html that
\* generate_html returned on the object self
HasCard(html, t) ==
    \E i \in DOMAIN html.executive_summary.metrics_cards :
        html.executive_summary.metrics_cards[i].label = CardLabel(t)
HasIndexEntry(html, t) == Contains(html.index_items, "#" \o t)
HasSection(html, t) == \E i \in DOMAIN html.sections : html.sections[i].id = t
\* the reconciler is given one verdict less once the record of t is taken away
HasVerdict(self, t) ==
    LET without == CASE t = "baseline" -> [self EXCEPT !.baseline_data = None]
                     [] t = "validation" -> [self EXCEPT !.validation_data = None]
                     [] t = "predictions" -> [self EXCEPT !.predictions_data = None]
    IN Len(GlobalStatuses(self)) > Len(GlobalStatuses(without))

\* C11: in the document generate_html returns, each report type has its
\* metric card, its index entry, its verdict among the reconciler's inputs
\* and its rendered section all together, or none of them
C11_PresenceConsistent ==
    output.k = "html" =>
        \A t \in ReportTypes :
            /\ HasCard(output.html, t) <=> HasSection(output.html, t)
            /\ HasIndexEntry(output.html, t) <=> HasSection(output.html, t)
            /\ HasVerdict(consolidator, t) <=> HasSection(output.html, t)

-----------------------------------------------------------------------------
(* Properties of the rendered document, checked on the runs of Spec *)

\* the raw document the app handed over for the section with this id
RawDocument(id) ==
    CASE id = "baseline" -> uploads.baseline_html
      [] id = "validation" -> uploads.validation_html
      [] id = "predictions" -> uploads.predictions_html

Rendered == pc \in {"status", "done"}

\* C12: the document recovered from a rendered section (its base64 payload
\* decoded) is the raw document that was given for that report
C12_EmbeddingRoundTrip ==
    Rendered =>
        \A i \in DOMAIN output.html.sections :
            B64Decode(output.html.sections[i].html_base64)
                = RawDocument(output.html.sections[i].id)

\* C13: the document generate_html returns is fixed by the consolidator's
\* inputs: wherever the run placed the raw documents in memory, the same
\* service metadata, records and documents give the same output
C13_Deterministic ==
    Rendered =>
        \A memory \in Heaps : generate_html(consolidator, memory) = output.html

-----------------------------------------------------------------------------
(* More properties of the consolidator object (SpecConsolidator) *)

SectionRank(id) ==
    CASE id = "baseline" -> 1 [] id = "validation" -> 2 [] id = "predictions" -> 3

\* C14: the add_* calls and set_service_info commute: from any state of the
\* object, two of them applied in either order leave the same attributes and
\* the same global status; the sections are always rendered in the order
\* baseline, validation, predictions
C14_OrderIrrelevant ==
    LET self == consolidator
        Same(x, y) == x = y /\ determine_global_status(x) = determine_global_status(y)
    IN /\ \A b \in ApiBaselineArgs, v \in ApiValidationArgs :
             Same(add_validation(add_baseline(self, b[1], b[2]), v[1], v[2]),
                  add_baseline(add_validation(self, v[1], v[2]), b[1], b[2]))
       /\ \A b \in ApiBaselineArgs, p \in ApiPredictionsArgs :
             Same(add_predictions(add_baseline(self, b[1], b[2]), p[1], p[2]),
                  add_baseline(add_predictions(self, p[1], p[2]), b[1], b[2]))
       /\ \A v \in ApiValidationArgs, p \in ApiPredictionsArgs :
             Same(add_predictions(add_validation(self, v[1], v[2]), p[1], p[2]),
                  add_validation(add_predictions(self, p[1], p[2]), v[1], v[2]))
       /\ \A info \in ServiceInfos :
             /\ \A b \in ApiBaselineArgs :
                   Same(set_service_info(add_baseline(self, b[1], b[2]), info),
                        add_baseline(set_service_info(self, info), b[1], b[2]))
             /\ \A v \in ApiValidationArgs :
                   Same(set_service_info(add_validation(self, v[1], v[2]), info),
                        add_validation(set_service_info(self, info), v[1], v[2]))
             /\ \A p \in ApiPredictionsArgs :
                   Same(set_service_info(add_predictions(self, p[1], p[2]), info),
                        add_predictions(set_service_info(self, info), p[1], p[2]))
       /\ output.k = "html" =>
             \A i, j \in DOMAIN output.html.sections :
                 i < j => SectionRank(output.html.sections[i].id)
                              < SectionRank(output.html.sections[j].id)

\* all three reports and the metadata were added and the three sections
\* were rendered
C14_Witness ==
    /\ output.k = "html"
    /\ Len(output.html.sections) = 3
    /\ consolidator.service_info \in ServiceInfos
    /\ determine_global_status(consolidator) = "FAIL"

-----------------------------------------------------------------------------
(* More properties of the rendered document (Spec) *)

\* the object generate_consolidated_report builds from the uploads
BuiltFrom(u) ==
    LET s0 == set_service_info(ReportConsolidatorV2_init, u.service_info)
        s1 == IF u.baseline_html # None
              THEN add_baseline(s0, BaselineParser_parse(u.baseline_html),
                                u.baseline_html)
              ELSE s0
        s2 == IF u.validation_html # None
              THEN add_validation(s1, ValidationParser_parse(u.validation_html),
                                  u.validation_html)
              ELSE s1
    IN IF u.predictions_html # None
       THEN add_predictions(s2, PredictionsParser_parse(u.predictions_html),
                            u.predictions_html)
       ELSE s2

\* C15: generate_html leaves the service metadata, the three records and the
\* three raw documents as they were added, so the status computed after it
\* (the app's preview) is the status of the rendered banner, and generate_html
\* called again in the same run returns the same document
C15_GenerateHtmlFrame ==
    /\ Rendered => consolidator = BuiltFrom(uploads)
    /\ pc = "done" =>
          /\ output.status = determine_global_status(consolidator)
          /\ output.html.executive_summary.banner = StatusBanner(output.status)
          /\ generate_html(consolidator, heap) = output.html

C15_Witness ==
    /\ pc = "done"
    /\ output.status = "FAIL"
    /\ Len(output.html.sections) = 3

\* the summary of the section with this id in the rendered document
SummaryOf(id) ==
    LET i == CHOOSE j \in DOMAIN output.html.sections :
                 output.html.sections[j].id = id
    IN output.html.sections[i].parsed_summary

\* C16: the predictions summary shows the first min(3, n) of the n extracted
\* products, in extraction order, and a notice counting the n - 3 others
\* exactly when n > 3
C16_InlineProducts ==
    (Rendered /\ uploads.predictions_html # None) =>
        LET productos == consolidator.predictions_data.productos
            n == Len(productos)
            summary == SummaryOf("predictions")
        IN /\ Len(summary.productos) = (IF n < 3 THEN n ELSE 3)
           /\ \A i \in DOMAIN summary.productos :
                 summary.productos[i].nombre = productos[i].nombre
           /\ n > 3 => summary.more = n - 3
           /\ n <= 3 => summary.more = 0

\* MaxProducts (five) products: three tables and a notice of the others (two)
C16_Witness ==
    /\ Rendered
    /\ uploads.predictions_html # None
    /\ Len(consolidator.predictions_data.productos) = MaxProducts
    /\ Len(SummaryOf("predictions").productos) = 3
    /\ SummaryOf("predictions").more = MaxProducts - 3

\* the fields of the baseline record the summary is said to carry
BaselineSummaryFields ==
    {"info_cliente", "diagnostico_wstd", "detalles_proceso",
     "estadisticas_correccion", "baseline_generado", "verificacion"}

\* a text that differs from text
Altered(text) == text \o <<"'">>

\* C17: each summary is a lossless projection of its record: a record that
\* differs in a baseline field, in the shift of a per-standard result, or in
\* a parameter value of a lamp row of an inline product gives another summary
C17_SummaryLossless ==
    Rendered =>
        /\ uploads.baseline_html # None =>
              \A f \in BaselineSummaryFields :
                  LET data == consolidator.baseline_data
                      other == [data EXCEPT ![f] = EmptyDict]
                  IN other # data =>
                        generate_baseline_summary(
                            [consolidator EXCEPT !.baseline_data = other])
                          # SummaryOf("baseline")
        /\ uploads.validation_html # None =>
              LET data == consolidator.validation_data
              IN \A i \in DOMAIN data.resultados_detallados :
                    LET other ==
                          [data EXCEPT !.resultados_detallados[i].shift = Altered(@)]
                    IN generate_validation_summary(
                           [consolidator EXCEPT !.validation_data = other])
                         # SummaryOf("validation")
        /\ uploads.predictions_html # None =>
              LET data == consolidator.predictions_data
              IN \A p \in DOMAIN data.productos :
                    p <= 3 =>
                       \A r \in DOMAIN data.productos[p].lamparas :
                          \A param \in Range(data.productos[p].parametros) :
                             LET lampara == data.productos[p].lamparas[r]
                                 other ==
                                    [data EXCEPT !.productos[p].lamparas[r] =
                                        Put(lampara, param,
                                            Altered(Get(lampara, param, EmptyStr)))]
                             IN generate_predictions_summary(
                                    [consolidator EXCEPT !.predictions_data = other])
                                  # SummaryOf("predictions")

\* C18: the status box is a function of the global status alone: it is the
\* box of the status _determine_global_status gives, and the boxes of the
\* four statuses differ in class, icon, headline and description
C18_BannerOfStatus ==
    Rendered =>
        /\ output.html.executive_summary.banner
              = StatusBanner(determine_global_status(consolidator))
        /\ \A s1, s2 \in Verdicts :
              s1 # s2 =>
                 /\ StatusBanner(s1).class # StatusBanner(s2).class
                 /\ StatusBanner(s1).icon # StatusBanner(s2).icon
                 /\ StatusBanner(s1).text # StatusBanner(s2).text
                 /\ StatusBanner(s1).description # StatusBanner(s2).description

\* a document whose box is the WARNING one
C18_Witness ==
    /\ Rendered
    /\ determine_global_status(consolidator) = "WARNING"
    /\ output.html.executive_summary.banner.class = "warning"
    /\ output.html.executive_summary.banner.text = "REVISAR RESULTADOS"

\* the metric card of report t in the rendered document
CardOf(t) ==
    LET cards == output.html.executive_summary.metrics_cards
    IN cards[CHOOSE i \in DOMAIN cards : cards[i].label = CardLabel(t)]

\* the verdict the extractor of report t derives from the record
DerivedVerdict(t) ==
    CASE t = "baseline" ->
            BaselineParser_determine_status(consolidator.baseline_data)
      [] t = "validation" ->
            ValidationParser_determine_status(consolidator.validation_data)
      [] t = "predictions" ->
            PredictionsParser_determine_status(consolidator.predictions_data)

\* C19: for every report that is present the rendered document shows that
\* report's own status, and the status shown is the verdict derived from the
\* report (UNKNOWN included)
C19_ReportStatusShown ==
    Rendered =>
        \A t \in ReportTypes :
            RawDocument(t) # None =>
                /\ HasCard(output.html, t)
                /\ "estado" \in DOMAIN CardOf(t)
                /\ CardOf(t).estado = <<DerivedVerdict(t)>>

-----------------------------------------------------------------------------
(* app.py: extract_service_info and the part of main() that calls it *)

KEY_ID_SENSOR == <<"ID del Sensor">>
KEY_FECHA_INFORME == <<"Fecha del Informe">>

\* not info[...]
IsEmpty(value) == ~Truthy(value)

\* the six fields extract_service_info takes from the baseline's info_cliente
ClientFields(info, baseline_info) ==
    [info EXCEPT
        !.sensor_id = Get(baseline_info, KEY_ID_SENSOR, EmptyStr),
        !.fecha = Get(baseline_info, KEY_FECHA_INFORME, EmptyStr),
        !.tecnico = Get(baseline_info, <<"Técnico">>, EmptyStr),
        !.cliente = Get(baseline_info, <<"Cliente">>,
                        Get(baseline_info, <<"Empresa">>, EmptyStr)),
        !.ubicacion = Get(baseline_info, <<"Ubicación">>, EmptyStr),
        !.modelo = Get(baseline_info, <<"Modelo">>, EmptyStr)]

\* the baseline branch of extract_service_info
FromBaseline(info, baseline_html) ==
    IF IsSet(baseline_html)
    THEN ClientFields(info,
             Get(BaselineParser_parse(baseline_html), "info_cliente", EmptyDict))
    ELSE info

\* the validation branch without its tests: consulted whatever the sensor id
\* is, and every field assigned
FromValidationAlways(info, validation_html) ==
    IF IsSet(validation_html)
    THEN LET val_info ==
                Get(ValidationParser_parse(validation_html), "info_servicio", EmptyDict)
         IN [info EXCEPT
                !.sensor_id = Get(val_info, KEY_ID_SENSOR, EmptyStr),
                !.fecha = Get(val_info, KEY_FECHA_INFORME, EmptyStr),
                !.cliente = Get(val_info, <<"Cliente">>, EmptyStr),
                !.modelo = Get(val_info, <<"Modelo del Equipo">>, EmptyStr)]
    ELSE info

\* the validation branch: only the fields that are still empty
FromValidation(info, validation_html) ==
    IF IsSet(validation_html) /\ IsEmpty(info.sensor_id)
    THEN LET val_info ==
                Get(ValidationParser_parse(validation_html), "info_servicio", EmptyDict)
         IN [info EXCEPT
                !.sensor_id = IF IsEmpty(@)
                              THEN Get(val_info, KEY_ID_SENSOR, EmptyStr) ELSE @,
                !.fecha = IF IsEmpty(@)
                          THEN Get(val_info, KEY_FECHA_INFORME, EmptyStr) ELSE @,
                !.cliente = IF IsEmpty(@)
                            THEN Get(val_info, <<"Cliente">>, EmptyStr) ELSE @,
                !.modelo = IF IsEmpty(@)
                           THEN Get(val_info, <<"Modelo del Equipo">>, EmptyStr)
                           ELSE @]
    ELSE info

\* the sensor id of the general info of a predictions document
YieldedPredictionsId(html) ==
    Get(PredictionsParser_extract_general_info(html), KEY_SENSOR_NIR, EmptyStr)

\* the predictions branch with the sensor id assigned before parse() raises
FromPredictionsPartial(info, predictions_html) ==
    IF IsSet(predictions_html) /\ IsEmpty(info.sensor_id)
    THEN LET data == PredictionsParser_parse(predictions_html)
         IN IF data = AttributeError
            THEN [info EXCEPT !.sensor_id = YieldedPredictionsId(predictions_html)]
            ELSE [info EXCEPT
                     !.sensor_id =
                        IF IsEmpty(@)
                        THEN Get(Get(data, "info_general", EmptyDict),
                                 KEY_SENSOR_NIR, EmptyStr)
                        ELSE @,
                     !.fecha =
                        IF IsEmpty(@)
                        THEN Get(Get(data, "info_general", EmptyDict),
                                 KEY_FECHA_REPORTE, EmptyStr)
                        ELSE @]
    ELSE info

\* the predictions branch; an exception of parse() is swallowed
FromPredictions(info, predictions_html) ==
    IF IsSet(predictions_html) /\ IsEmpty(info.sensor_id)
    THEN LET data == PredictionsParser_parse(predictions_html)
         IN IF data = AttributeError
            THEN info
            ELSE [info EXCEPT
                     !.sensor_id =
                        IF IsEmpty(@)
                        THEN Get(Get(data, "info_general", EmptyDict),
                                 KEY_SENSOR_NIR, EmptyStr)
                        ELSE @,
                     !.fecha =
                        IF IsEmpty(@)
                        THEN Get(Get(data, "info_general", EmptyDict),
                                 KEY_FECHA_REPORTE, EmptyStr)
                        ELSE @]
    ELSE info

\* if not info['fecha']: today is datetime.now().strftime('%Y-%m-%d')
DefaultFecha(info, today) ==
    IF IsEmpty(info.fecha) THEN [info EXCEPT !.fecha = today] ELSE info

\* extract_service_info
extract_service_info(baseline_html, validation_html, predictions_html, today) ==
    DefaultFecha(
        FromPredictions(
            FromValidation(
                FromBaseline(
                    [sensor_id |-> EmptyStr, fecha |-> EmptyStr, tecnico |-> EmptyStr,
                     cliente |-> EmptyStr, ubicacion |-> EmptyStr, modelo |-> EmptyStr,
                     mantenimiento |-> FALSE, ajuste_baseline |-> FALSE,
                     lampara_referencia |-> EmptyStr, lampara_nueva |-> EmptyStr,
                     validacion_optica |-> FALSE, predicciones_muestras |-> FALSE,
                     notas |-> EmptyStr],
                    baseline_html),
                validation_html),
            predictions_html),
        today)

\* the info table of a baseline or validation document
InfoTable(sensor_id, fecha) ==
    Div(Table(<<Row(<<<<"ID del Sensor", ":">>, sensor_id>>),
                Row(<<<<"Fecha del Informe", ":">>, fecha>>),
                Row(<<<<"Cliente", ":">>, <<"ACME">>>>)>>))

\* the uploads of main(): nothing, an empty file, or a document with its own
\* sensor id, with a blank one or with none
MainBaselineDocs ==
    {None, EmptyStr,
     BaselineDocument(BaselineFull, None),
     BaselineDocument([BaselineFull EXCEPT
                          !.info_cliente = InfoTable(<<" ">>, <<"2025-02-01">>)], None),
     BaselineDocument([BaselineFull EXCEPT !.info_cliente = None], None)}

MainValidationDocs ==
    {None,
     ValidationDocument([ValidationFull EXCEPT
                            !.info_servicio = InfoTable(<<"NIR-002">>, <<" ">>)], None),
     ValidationDocument([ValidationFull EXCEPT
                            !.info_servicio = InfoTable(<<>>, <<"2025-03-01">>)], None),
     ValidationDocument([ValidationFull EXCEPT !.info_servicio = Div(None)], None)}

SensorBox(sensor_id) ==
    [k |-> "div",
     items |-> <<InfoItem(Text("span", <<"U+1F52C", " ", "Sensor NIR", ":">>),
                          Text("span", sensor_id))>>,
     ul |-> None]

\* the last document has a sensor id but a product table without thead, on
\* which parse() raises
MainPredictionsDocs ==
    {None,
     PredictionsDocument(SensorBox(<<"NIR-003">>), <<StdProduct(1)>>),
     PredictionsDocument(CHOOSE b \in InfoBoxes : b # None /\ b.ul = None, <<>>),
     PredictionsDocument(None, <<>>),
     PredictionsDocument(SensorBox(<<"NIR-004">>),
                         <<ProductSection(Text("h3", <<"Sin cabecera">>),
                                          ProductTableElement(None, Tbody(LampRows)))>>)}

MainUploads ==
    {u \in [baseline_html : MainBaselineDocs, validation_html : MainValidationDocs,
            predictions_html : MainPredictionsDocs] :
        \* main() returns before the form when files_loaded == 0
        u.baseline_html # None \/ u.validation_html # None \/ u.predictions_html # None}

Dates == {<<"2026-11-03">>, <<"2026-11-04">>}

\* extract_service_info called on its own: any three arguments
InitExtract ==
    /\ uploads \in [baseline_html : MainBaselineDocs,
                    validation_html : MainValidationDocs,
                    predictions_html : MainPredictionsDocs]
    /\ session = None
    /\ output = None
    /\ pc = "call"
    /\ consolidator = None
    /\ parser = None
    /\ result = None
    /\ heap = None

\* info = extract_service_info(baseline_html, validation_html, predictions_html)
CallExtractServiceInfo ==
    /\ pc = "call"
    /\ \E today \in Dates :
          output' = [k |-> "service_info",
                     info |-> extract_service_info(uploads.baseline_html,
                                  uploads.validation_html, uploads.predictions_html,
                                  today)]
    /\ pc' = "returned"
    /\ UNCHANGED <<parser, result, uploads, consolidator, session, heap>>

NextExtract ==
    \/ CallExtractServiceInfo

SpecExtract == InitExtract /\ [][NextExtract]_vars

-----------------------------------------------------------------------------
(* app.py run by streamlit: the script from its first line on every rerun. *)
(* session is st.session_state.service_info, None while the key is not set; *)
(* output is the page: the values the form shows, and whether the form was  *)
(* submitted in this session.                                               *)

NoFiles == [baseline_html |-> None, validation_html |-> None,
            predictions_html |-> None]

\* the dict of the __main__ block
InitialServiceInfo ==
    [sensor_id |-> EmptyStr, fecha |-> EmptyStr, tecnico |-> EmptyStr,
     cliente |-> EmptyStr, ubicacion |-> EmptyStr, modelo |-> EmptyStr,
     mantenimiento |-> FALSE, ajuste_baseline |-> FALSE,
     lampara_referencia |-> EmptyStr, lampara_nueva |-> EmptyStr,
     validacion_optica |-> FALSE, predicciones_muestras |-> FALSE,
     notas |-> EmptyStr]

\* the value= of the form's widgets; the technician input has none
FormDefaults(service_info) ==
    [sensor_id |-> Get(service_info, "sensor_id", EmptyStr),
     fecha |-> Get(service_info, "fecha", EmptyStr),
     tecnico |-> EmptyStr,
     cliente |-> Get(service_info, "cliente", EmptyStr),
     ubicacion |-> Get(service_info, "ubicacion", EmptyStr),
     modelo |-> Get(service_info, "modelo", EmptyStr),
     mantenimiento |-> Get(service_info, "mantenimiento", FALSE),
     ajuste_baseline |-> Get(service_info, "ajuste_baseline", FALSE),
     lampara_referencia |-> Get(service_info, "lampara_referencia", EmptyStr),
     lampara_nueva |-> Get(service_info, "lampara_nueva", EmptyStr),
     validacion_optica |-> Get(service_info, "validacion_optica", FALSE),
     predicciones_muestras |-> Get(service_info, "predicciones_muestras", FALSE),
     notas |-> Get(service_info, "notas", EmptyStr)]

InitMain ==
    /\ uploads = NoFiles
    /\ session = None
    /\ output = [k |-> "page", form |-> None, submitted |-> FALSE]
    /\ pc = "script"
    /\ consolidator = None
    /\ parser = None
    /\ result = None
    /\ heap = None

\* if __name__ == "__main__": the session state gets the empty dict unless
\* it has the key, then main() is called
ScriptStart ==
    /\ pc = "script"
    /\ session' = IF session = None THEN InitialServiceInfo ELSE session
    /\ pc' = "main"
    /\ UNCHANGED <<parser, result, uploads, consolidator, output, heap>>

\* main(): without files it returns before the form; with files it fills
\* the session state if the key is missing and shows the form
Main ==
    /\ pc = "main"
    /\ IF uploads = NoFiles
       THEN /\ session' = session
            /\ output' = [output EXCEPT !.form = None]
       ELSE /\ \E today \in Dates :
                  session' =
                     IF session = None
                     THEN extract_service_info(uploads.baseline_html,
                              uploads.validation_html, uploads.predictions_html,
                              today)
                     ELSE session
            /\ output' = [output EXCEPT !.form = FormDefaults(session')]
    /\ pc' = "page"
    /\ UNCHANGED <<parser, result, uploads, consolidator, heap>>

\* the operator changes the uploaded files: the script runs again
Upload ==
    /\ pc = "page"
    /\ uploads' \in MainUploads \cup {NoFiles}
    /\ uploads' # uploads
    /\ pc' = "script"
    /\ UNCHANGED <<parser, result, consolidator, output, session, heap>>

\* the service form is submitted: the widgets' values replace the dict
UpdateInfo ==
    /\ pc = "page"
    /\ output.form # None
    /\ \E sensor_id \in {output.form.sensor_id, <<"NIR-777">>},
          tecnico \in {EmptyStr, <<"T. Vila">>} :
          session' = [output.form EXCEPT !.sensor_id = sensor_id,
                                         !.tecnico = tecnico]
    /\ output' = [output EXCEPT !.submitted = TRUE]
    /\ pc' = "script"
    /\ UNCHANGED <<parser, result, uploads, consolidator, heap>>

NextMain ==
    \/ ScriptStart
    \/ Main
    \/ Upload
    \/ UpdateInfo

SpecMain == InitMain /\ [][NextMain]_vars

\* the sensor id the extractor of a document yields from the document's
\* info section: nothing for a missing or empty upload and for a section
\* without the key
YieldedBaseline(html) ==
    IF IsSet(html)
    THEN Get(BaselineParser_extract_client_info(html), KEY_ID_SENSOR, EmptyStr)
    ELSE EmptyStr
YieldedValidation(html) ==
    IF IsSet(html)
    THEN Get(ValidationParser_extract_service_info(html), KEY_ID_SENSOR, EmptyStr)
    ELSE EmptyStr
YieldedPredictions(html) ==
    IF IsSet(html)
    THEN Get(PredictionsParser_extract_general_info(html), KEY_SENSOR_NIR, EmptyStr)
    ELSE EmptyStr

\* C20: the sensor id extract_service_info returns is the one of the first
\* document, in the order baseline, validation, predictions, whose extractor
\* yields a non-empty one; it is empty only if none yields one
C20_SensorIdPriority ==
    output.k = "service_info" =>
        LET ids == <<YieldedBaseline(uploads.baseline_html),
                     YieldedValidation(uploads.validation_html),
                     YieldedPredictions(uploads.predictions_html)>>
            yielding == {i \in DOMAIN ids : ids[i] # EmptyStr}
        IN output.info.sensor_id =
              IF yielding = {} THEN EmptyStr
              ELSE ids[CHOOSE i \in yielding : \A j \in yielding : i <= j]

-----------------------------------------------------------------------------
(* Properties of the script run (SpecMain) *)

\* the first non-empty sensor id the supplied documents' extractors yield
FirstYielded(u) ==
    LET ids == <<YieldedBaseline(u.baseline_html),
                 YieldedValidation(u.validation_html),
                 YieldedPredictions(u.predictions_html)>>
        yielding == {i \in DOMAIN ids : ids[i] # EmptyStr}
    IN IF yielding = {} THEN EmptyStr
       ELSE ids[CHOOSE i \in yielding : \A j \in yielding : i <= j]

\* C21: once a report that yields a non-empty sensor id is uploaded and the
\* form has not been submitted, the session's service metadata, and so the
\* form main() shows, hold the extracted sensor id
C21_FormPrepopulated ==
    (pc = "page" /\ ~output.submitted /\ FirstYielded(uploads) # EmptyStr) =>
        /\ session.sensor_id = FirstYielded(uploads)
        /\ output.form.sensor_id = FirstYielded(uploads)

-----------------------------------------------------------------------------
(* Properties of the report run on failures (Spec) *)

\* the parser of the uploaded document of report t raises
ParserRaises(t) ==
    /\ t = "predictions"
    /\ uploads.predictions_html # None
    /\ PredictionsParser_parse(uploads.predictions_html) = AttributeError

\* C22: when the parser of one uploaded document raises, the run ends with
\* an error that names that document and with a consolidated document that
\* has the sections of the other uploaded documents
C22_FailureIsolated ==
    \A t \in ReportTypes :
        (ParserRaises(t) /\ pc \in {"done", "error"}) =>
            /\ "document" \in DOMAIN output /\ output.document = t
            /\ "html" \in DOMAIN output
            /\ \A other \in ReportTypes \ {t} :
                  RawDocument(other) # None => HasSection(output.html, other)

-----------------------------------------------------------------------------
(* More properties of the extractors (SpecParsers) *)

\* the status of a status cell, symbol first, keyword second
SymbolFirst(estado_text) ==
    IF Contains(estado_text, SymOk) THEN "OK"
    ELSE IF Contains(estado_text, SymWarning) THEN "WARNING"
    ELSE IF Contains(estado_text, SymFail) THEN "FAIL"
    ELSE IF Contains(Upper(estado_text), "OK") THEN "OK"
    ELSE IF Contains(Upper(estado_text), "WARNING") THEN "WARNING"
    ELSE IF Contains(Upper(estado_text), "FAIL") THEN "FAIL"
    ELSE "UNKNOWN"

ValidationParsed == parser.class = "ValidationParser" /\ Truthy(parser.data)

\* the rows of the per-standard table that give a result
ResultRows(soup) ==
    IF soup.resultados_detallados # None /\ soup.resultados_detallados.table # None
    THEN WideRows(SkipHeader(Rows(soup.resultados_detallados.table)), 7)
    ELSE <<>>

\* C23: the recorded status of a per-standard result is the status of the
\* symbol in its status cell whatever keywords the cell holds, else the
\* status of the keyword, else UNKNOWN; it is one of the four verdicts
C23_SymbolBeforeKeyword ==
    ValidationParsed =>
        LET results == parser.data.resultados_detallados
            rows == ResultRows(parser.soup)
        IN /\ Len(results) = Len(rows)
           /\ \A i \in DOMAIN results :
                 /\ results[i].estado \in Verdicts
                 /\ results[i].estado = SymbolFirst(rows[i][1])


\* the counts of the executive summary of a validation record
MetricasOf(data) == Get(Get(data, "resumen_ejecutivo", EmptyDict), "metricas", EmptyDict)

\* C24: a validation record that lacks the Fallidos or the Revisar count has
\* the verdict UNKNOWN, in the parser and in the reconciler: a missing count
\* is never taken as 0
C24_MissingCountUnknown ==
    (parser.class = "ValidationParser" /\ result.k = "status") =>
        ((KEY_FALLIDOS \notin DOMAIN MetricasOf(parser.data)
            \/ KEY_REVISAR \notin DOMAIN MetricasOf(parser.data)) =>
              /\ result.status = "UNKNOWN"
              /\ GlobalValidationVerdict(parser.data) = "UNKNOWN")


\* a key without its trailing colons
RECURSIVE TrailingColonsRemoved(_)
TrailingColonsRemoved(s) ==
    IF s # <<>> /\ s[Len(s)] = ":"
    THEN TrailingColonsRemoved(SubSeq(s, 1, Len(s) - 1))
    ELSE s

\* the entries a two-column table gives: one per row of exactly two cells,
\* the key without its trailing colons (a later row overwrites an earlier)
RECURSIVE KeyValueEntries(_)
KeyValueEntries(rows) ==
    IF rows = <<>> THEN EmptyDict
    ELSE IF Len(rows[Len(rows)].td) = 2
    THEN Put(KeyValueEntries(SubSeq(rows, 1, Len(rows) - 1)),
             TrailingColonsRemoved(Strip(rows[Len(rows)].td[1])),
             Strip(rows[Len(rows)].td[2]))
    ELSE KeyValueEntries(SubSeq(rows, 1, Len(rows) - 1))

TableEntries(section) ==
    IF section # None /\ section.table # None
    THEN KeyValueEntries(Rows(section.table)) ELSE EmptyDict

\* C25: every two-column key/value table (client info, process details,
\* generated-baseline info, validation service info) gives, for a row of
\* exactly two cells, the entry whose key is the trimmed first cell without
\* its trailing colons, inner colons kept, and whose value is the trimmed
\* second cell
C25_KeyValueTables ==
    /\ (parser.class = "BaselineParser" /\ result.k = "data") =>
          /\ result.data.info_cliente = TableEntries(parser.soup.info_cliente)
          /\ result.data.detalles_proceso = TableEntries(parser.soup.process_details)
          /\ result.data.baseline_generado = TableEntries(parser.soup.baseline_info)
    /\ (parser.class = "ValidationParser" /\ result.k = "data") =>
          result.data.info_servicio = TableEntries(parser.soup.info_servicio)


Grades == {"EXCELENTE", "BUENO", "ACEPTABLE", "REQUIERE REVISIÓN"}

\* C27: the verification state of a baseline record is a grade only when its
\* metrics hold both RMS and Diferencia Máxima; with metrics that lack either
\* the state is UNKNOWN: a missing metric is never graded as 0
C27_GradeNeedsBothMetrics ==
    (BaselineParsed /\ Truthy(Get(result.data.verificacion, "metricas", EmptyDict))) =>
        LET v == result.data.verificacion
            both == KEY_RMS \in DOMAIN v["metricas"] /\ KEY_MAX_DIFF \in DOMAIN v["metricas"]
        IN /\ "estado" \in DOMAIN v
           /\ v["estado"] \in Grades => both
           /\ ~both => v["estado"] = "UNKNOWN"

-----------------------------------------------------------------------------
(* More properties of the report run (Spec) *)

\* the boolean fields of the form
FlagKeys ==
    {"mantenimiento", "ajuste_baseline", "validacion_optica", "predicciones_muestras"}

\* a field of the service metadata that was supplied: a true flag, a
\* non-empty text
FieldSupplied(service_info, key) ==
    IF key \in FlagKeys THEN service_info[key] ELSE service_info[key] # EmptyStr

\* C26: the header block of the consolidated document contains every field
\* of the service metadata that was supplied non-empty or true, as the form
\* collects them: texts, the four flags and the two lamp ids
C26_HeaderComplete ==
    (pc = "done" /\ "html" \in DOMAIN output) =>
        \A key \in DOMAIN consolidator.service_info :
            FieldSupplied(consolidator.service_info, key) =>
                /\ key \in DOMAIN output.html.header
                /\ output.html.header[key] = consolidator.service_info[key]


\* C28: the class of the validation metric card is 'fail' exactly when the
\* validation verdict is FAIL, and 'ok' otherwise
C28_ValidationCardClass ==
    (Rendered /\ HasCard(output.html, "validation")) =>
        /\ CardOf("validation").class \in {"ok", "fail"}
        /\ CardOf("validation").class = "fail"
              <=> GlobalValidationVerdict(consolidator.validation_data) = "FAIL"

-----------------------------------------------------------------------------
(* More properties of extract_service_info (SpecExtract) *)

\* the info section of an uploaded document, nothing for a missing upload
BaselineInfoOf(html) ==
    IF IsSet(html) THEN BaselineParser_extract_client_info(html) ELSE EmptyDict
ValidationInfoOf(html) ==
    IF IsSet(html) THEN ValidationParser_extract_service_info(html) ELSE EmptyDict

\* the value the baseline's info section has for a field of the result
BaselineField(baseline_info, field) ==
    CASE field = "sensor_id" -> Get(baseline_info, KEY_ID_SENSOR, EmptyStr)
      [] field = "fecha" -> Get(baseline_info, KEY_FECHA_INFORME, EmptyStr)
      [] field = "tecnico" -> Get(baseline_info, <<"Técnico">>, EmptyStr)
      [] field = "cliente" -> Get(baseline_info, <<"Cliente">>,
                                  Get(baseline_info, <<"Empresa">>, EmptyStr))
      [] field = "ubicacion" -> Get(baseline_info, <<"Ubicación">>, EmptyStr)
      [] field = "modelo" -> Get(baseline_info, <<"Modelo">>, EmptyStr)

\* the value the validation's info section has for a field of the result
ValidationField(val_info, field) ==
    CASE field = "sensor_id" -> Get(val_info, KEY_ID_SENSOR, EmptyStr)
      [] field = "fecha" -> Get(val_info, KEY_FECHA_INFORME, EmptyStr)
      [] field = "cliente" -> Get(val_info, <<"Cliente">>, EmptyStr)
      [] field = "modelo" -> Get(val_info, <<"Modelo del Equipo">>, EmptyStr)

BaselineFields == {"sensor_id", "fecha", "tecnico", "cliente", "ubicacion", "modelo"}
ValidationFields == {"sensor_id", "fecha", "cliente", "modelo"}

\* C29: in extract_service_info a later document never overwrites a field an
\* earlier document filled, and a later document is consulted only while the
\* sensor id is still empty; when the baseline yields a non-empty sensor id
\* every returned field is the baseline's value or the default (the current
\* date for the date)
C29_EarlierDocumentWins ==
    output.k = "service_info" =>
        /\ \A f \in BaselineFields :
              BaselineField(BaselineInfoOf(uploads.baseline_html), f) # EmptyStr =>
                 output.info[f] = BaselineField(BaselineInfoOf(uploads.baseline_html), f)
        /\ BaselineField(BaselineInfoOf(uploads.baseline_html), "sensor_id") = EmptyStr =>
              /\ \A f \in ValidationFields :
                    (/\ BaselineField(BaselineInfoOf(uploads.baseline_html), f) = EmptyStr
                     /\ ValidationField(ValidationInfoOf(uploads.validation_html), f) # EmptyStr)
                    => output.info[f] =
                          ValidationField(ValidationInfoOf(uploads.validation_html), f)
              /\ ValidationField(ValidationInfoOf(uploads.validation_html), "sensor_id")
                    # EmptyStr =>
                    \A p \in MainPredictionsDocs : \E today \in Dates :
                       extract_service_info(uploads.baseline_html,
                           uploads.validation_html, p, today) = output.info
        /\ BaselineField(BaselineInfoOf(uploads.baseline_html), "sensor_id") # EmptyStr =>
              /\ \A f \in DOMAIN output.info \ {"fecha"} :
                    output.info[f] =
                       IF f \in BaselineFields
                       THEN BaselineField(BaselineInfoOf(uploads.baseline_html), f)
                       ELSE InitialServiceInfo[f]
              /\ output.info.fecha \in
                    {BaselineField(BaselineInfoOf(uploads.baseline_html), "fecha")}
                    \cup Dates
              /\ \A v \in MainValidationDocs, p \in MainPredictionsDocs :
                    \E today \in Dates :
                       extract_service_info(uploads.baseline_html, v, p, today)
                          = output.info

C29_Witness ==
    /\ output.k = "service_info"
    /\ YieldedBaseline(uploads.baseline_html) = <<"NIR-001">>
    /\ YieldedValidation(uploads.validation_html) = <<"NIR-002">>
    /\ YieldedPredictions(uploads.predictions_html) = <<"NIR-003">>
    /\ output.info.sensor_id = <<"NIR-001">>
    /\ output.info.cliente = <<"ACME">>
    /\ output.info.fecha \in Dates


\* the uploaded predictions document is one on which parse() raises
PredictionsRaises ==
    /\ IsSet(uploads.predictions_html)
    /\ PredictionsParser_parse(uploads.predictions_html) = AttributeError

\* C30: extract_service_info never raises: it returns a record with all its
\* keys and a non-empty date, and a document whose parser raises changes no
\* field of it (the result is the one without that document)
C30_ExtractNeverRaises ==
    pc = "returned" =>
        /\ output.k = "service_info"
        /\ DOMAIN output.info = DOMAIN InitialServiceInfo
        /\ output.info.fecha # EmptyStr
        /\ PredictionsRaises =>
              \E today \in Dates :
                 output.info = extract_service_info(uploads.baseline_html,
                                   uploads.validation_html, None, today)

C30_Witness ==
    /\ pc = "returned"
    /\ PredictionsRaises
    /\ YieldedBaseline(uploads.baseline_html) = EmptyStr
    /\ YieldedValidation(uploads.validation_html) = EmptyStr
    /\ uploads.validation_html # None
    /\ output.info.sensor_id = EmptyStr
    /\ output.info.fecha = <<"2025-03-01">>

====
